---- MODULE Spec2Model ----
(***************************************************************************)
(* srclib-css: the grapher (graph.go), its combinator engine               *)
(* (combinators.go) and the file classification of scan.go.                *)
(*                                                                         *)
(* A Go string is modelled as a sequence of one-character strings, so that *)
(* concatenation, strings.Split, prefixes and path cleaning are computed   *)
(* on the characters.  Attribute keys, tag names and node types are only   *)
(* ever compared with constants by the code and are kept as plain strings. *)
(* A Go pointer to a node is the node's index in its document (0 is nil);  *)
(* a *graph.Def returned by SelectorDef is an index into the slice it was  *)
(* given (0 is nil).                                                       *)
(***************************************************************************)
EXTENDS Integers, Sequences, FiniteSets, TLC

VARIABLES
    files,      \* doGraph: u.Files of the unit being graphed
    pc,         \* Graph: "graph" at its call, doGraph's loop ("css", "html"), "done"
    i,          \* doGraph: index into u.Files of the current loop
    units,      \* Graph: the Files of each unit supplied
    err,        \* Graph: the error it returns, "nil" for none
    outDefs,    \* doGraph: out.Defs
    outRefs,    \* doGraph: out.Refs
    tree,       \* combinator engine: the document sn.node lives in
    target,     \* combinator engine: the selNode handed to the function
    visible,    \* SelectorDef: the defs argument
    op,         \* combinator engine: the function that was applied last
    result,     \* combinator engine: what that function returned
    fn,         \* a function called on its own: its name
    args,       \* a function called on its own: its arguments
    returned,   \* a function called on its own: whether it has returned
    ret,        \* a function called on its own: what it returned
    frame       \* a combinator walk run step by step: its local variables

vars ==
    <<units, err, files, pc, i, outDefs, outRefs, tree, target, visible, op, result,
      fn, args, returned, ret, frame>>

graphVars == <<units, err, files, pc, i, outDefs, outRefs>>

combVars == <<tree, target, visible, op, result>>

fnVars == <<fn, args, returned, ret>>

walkVars == <<frame>>

(***************************************************************************)
(* Bounds of the model.                                                    *)
(***************************************************************************)
MaxFiles == 3

MaxUnits == 2

MaxDepth == 2

MaxSiblings == 2

MaxText == 3

MaxToken == 2

MaxChain == 4

MaxProp == 3

MaxVal == 4

MaxDefs == 2

(***************************************************************************)
(* Strings are sequences of characters (runes).  A character outside ASCII *)
(* takes more than one byte of a Go string: eAcute stands for U+00E9,      *)
(* which UTF-8 encodes as the bytes C3 A9.                                 *)
(***************************************************************************)
eAcute == "U+00E9"

\* []byte(ch) of one character.
RuneBytes(ch) == IF ch = eAcute THEN <<"C3", "A9">> ELSE <<ch>>

\* []byte(s)
RECURSIVE Bytes(_)
Bytes(s) == IF s = <<>> THEN <<>> ELSE RuneBytes(Head(s)) \o Bytes(Tail(s))

\* len(s), len([]byte(s))
ByteLen(s) == Len(Bytes(s))

(***************************************************************************)
(* package strings                                                         *)
(***************************************************************************)
HasPrefix(s, prefix) ==
    Len(s) >= Len(prefix) /\ SubSeq(s, 1, Len(prefix)) = prefix

HasSuffix(s, suffix) ==
    Len(s) >= Len(suffix) /\ SubSeq(s, Len(s) - Len(suffix) + 1, Len(s)) = suffix

\* strings.Split(s, sep) for a one-character sep: Split("", sep) is [""].
RECURSIVE Split(_, _)
Split(s, sep) ==
    IF \E k \in 1..Len(s) : s[k] = sep
    THEN LET k == CHOOSE k \in 1..Len(s) :
                      s[k] = sep /\ \A j \in 1..(k - 1) : s[j] # sep
         IN  <<SubSeq(s, 1, k - 1)>> \o Split(SubSeq(s, k + 1, Len(s)), sep)
    ELSE <<s>>

(***************************************************************************)
(* html.Node.  A document is a sequence of nodes; Parent, FirstChild,      *)
(* PrevSibling and NextSibling are indices into it, 0 for nil.             *)
(***************************************************************************)
ElementNode == "ElementNode"

DocumentNode == "DocumentNode"

TextNode == "TextNode"

Attribute(key, val, valStart) == [Key |-> key, Val |-> val, ValStart |-> valStart]

Node(type, data, attr, parent, firstChild, prevSibling, nextSibling) ==
    [Type |-> type, Data |-> data, Attr |-> attr, Parent |-> parent,
     FirstChild |-> firstChild, PrevSibling |-> prevSibling,
     NextSibling |-> nextSibling]

\* selNode{sel, node}
selNode(sel, node) == [sel |-> sel, node |-> node]

selPrefix(attr) ==
    CASE attr = "id" -> <<"#">>
      [] attr = "class" -> <<".">>
      [] OTHER -> <<>>

(***************************************************************************)
(* combinators.go                                                          *)
(***************************************************************************)
attrValSep == " "

\* Variant of DescVal without the `s.node != currentNode` test: a token is
\* also put in front of the strings built from its own node.
DescValSameNode(doc, sn, currentNode, key, val, selectors) ==
    LET selStr == selPrefix(key) \o val
    IN  IF currentNode = sn.node
        THEN selectors
        ELSE selectors
             \o [k \in 1..Len(selectors) |->
                    selNode(selStr \o <<" ">> \o selectors[k].sel, currentNode)]
             \o <<selNode(selStr \o <<" ">> \o sn.sel, currentNode)>>

\* Variant of DescVal without the inner loop over the strings built so far:
\* only "token sel" pairs are produced.
DescValPairsOnly(doc, sn, currentNode, key, val, selectors) ==
    IF currentNode = sn.node
    THEN selectors
    ELSE selectors
         \o <<selNode(selPrefix(key) \o val \o <<" ">> \o sn.sel, currentNode)>>

\* The body of `for _, val := range attrValues` of DescCombinatorSelectors:
\* `range selectors` ranges over the slice as it is when the loop starts.
DescVal(doc, sn, currentNode, key, val, selectors) ==
    LET selStr == selPrefix(key) \o val
        other  == SelectSeq(selectors, LAMBDA s : s.node # currentNode)
    IN  IF currentNode = sn.node
        THEN selectors
        ELSE selectors
             \o [k \in 1..Len(other) |->
                    selNode(selStr \o <<" ">> \o other[k].sel, currentNode)]
             \o <<selNode(selStr \o <<" ">> \o sn.sel, currentNode)>>

RECURSIVE DescVals(_, _, _, _, _, _, _)
DescVals(doc, sn, currentNode, key, attrValues, k, selectors) ==
    IF k > Len(attrValues)
    THEN selectors
    ELSE DescVals(doc, sn, currentNode, key, attrValues, k + 1,
                  DescVal(doc, sn, currentNode, key, attrValues[k], selectors))

RECURSIVE DescAttrs(_, _, _, _, _)
DescAttrs(doc, sn, currentNode, k, selectors) ==
    LET attrs == doc[currentNode].Attr IN
    IF k > Len(attrs)
    THEN selectors
    ELSE IF attrs[k].Key # "id" /\ attrs[k].Key # "class"
    THEN DescAttrs(doc, sn, currentNode, k + 1, selectors)
    ELSE DescAttrs(doc, sn, currentNode, k + 1,
                   DescVals(doc, sn, currentNode, attrs[k].Key,
                            Split(attrs[k].Val, attrValSep), 1, selectors))

\* The `for { ... }` loop walking upwards from sn.node.
RECURSIVE DescWalk(_, _, _, _)
DescWalk(doc, sn, currentNode, selectors) ==
    LET after == IF doc[currentNode].Type = ElementNode
                 THEN DescAttrs(doc, sn, currentNode, 1, selectors)
                 ELSE selectors
    IN  IF doc[currentNode].Parent = 0
        THEN after
        ELSE DescWalk(doc, sn, doc[currentNode].Parent, after)

DescCombinatorSelectors(doc, sn) ==
    LET selectors == DescWalk(doc, sn, sn.node, <<>>)
    IN  [k \in 1..Len(selectors) |-> selectors[k].sel]

\* Variant of ChildVal without the two `Parent == currentNode` tests.
ChildValAnyAncestor(doc, sn, currentNode, key, val, selectors) ==
    LET selStr == selPrefix(key) \o val
        below  == SelectSeq(selectors, LAMBDA s : s.node # currentNode)
    IN  IF currentNode = sn.node
        THEN selectors
        ELSE selectors
             \o [k \in 1..Len(below) |->
                    selNode(selStr \o <<" ", ">", " ">> \o below[k].sel, currentNode)]
             \o <<selNode(selStr \o <<" ", ">", " ">> \o sn.sel, currentNode)>>

ChildVal(doc, sn, currentNode, key, val, selectors) ==
    LET selStr == selPrefix(key) \o val
        below  == SelectSeq(selectors,
                            LAMBDA s : s.node # currentNode
                                       /\ doc[s.node].Parent = currentNode)
    IN  IF currentNode = sn.node
        THEN selectors
        ELSE selectors
             \o [k \in 1..Len(below) |->
                    selNode(selStr \o <<" ", ">", " ">> \o below[k].sel, currentNode)]
             \o (IF doc[sn.node].Parent = currentNode
                 THEN <<selNode(selStr \o <<" ", ">", " ">> \o sn.sel, currentNode)>>
                 ELSE <<>>)

RECURSIVE ChildVals(_, _, _, _, _, _, _)
ChildVals(doc, sn, currentNode, key, attrValues, k, selectors) ==
    IF k > Len(attrValues)
    THEN selectors
    ELSE ChildVals(doc, sn, currentNode, key, attrValues, k + 1,
                   ChildVal(doc, sn, currentNode, key, attrValues[k], selectors))

RECURSIVE ChildAttrs(_, _, _, _, _)
ChildAttrs(doc, sn, currentNode, k, selectors) ==
    LET attrs == doc[currentNode].Attr IN
    IF k > Len(attrs)
    THEN selectors
    ELSE IF attrs[k].Key # "id" /\ attrs[k].Key # "class"
    THEN ChildAttrs(doc, sn, currentNode, k + 1, selectors)
    ELSE ChildAttrs(doc, sn, currentNode, k + 1,
                    ChildVals(doc, sn, currentNode, attrs[k].Key,
                              Split(attrs[k].Val, attrValSep), 1, selectors))

RECURSIVE ChildWalk(_, _, _, _)
ChildWalk(doc, sn, currentNode, selectors) ==
    LET after == IF doc[currentNode].Type = ElementNode
                 THEN ChildAttrs(doc, sn, currentNode, 1, selectors)
                 ELSE selectors
    IN  IF doc[currentNode].Parent = 0
        THEN after
        ELSE ChildWalk(doc, sn, doc[currentNode].Parent, after)

ChildCombinatorSelectors(doc, sn) ==
    LET selectors == ChildWalk(doc, sn, sn.node, <<>>)
    IN  [k \in 1..Len(selectors) |-> selectors[k].sel]

\* The two nested loops of AdjacentCombinatorSelectors and
\* GeneralCombinatorSelectors over prev.Attr and the split values; comb is
\* the text between the sibling's token and sn.sel (" + " or " ~ ").
RECURSIVE SiblingAttrs(_, _, _, _)
SiblingAttrs(attrs, k, comb, sn) ==
    IF k > Len(attrs)
    THEN <<>>
    ELSE LET attrValues == Split(attrs[k].Val, attrValSep)
         IN  [j \in 1..Len(attrValues) |->
                 selPrefix(attrs[k].Key) \o attrValues[j] \o comb \o sn.sel]
             \o SiblingAttrs(attrs, k + 1, comb, sn)

\* Variant of AdjacentCombinatorSelectors that goes on to the siblings before
\* the previous one.
RECURSIVE AllPrevSiblings(_, _, _)
AllPrevSiblings(doc, prev, sn) ==
    IF prev = 0
    THEN <<>>
    ELSE SiblingAttrs(doc[prev].Attr, 1, <<" ", "+", " ">>, sn)
         \o AllPrevSiblings(doc, doc[prev].PrevSibling, sn)

AdjacentAllPrevSiblings(doc, sn) ==
    AllPrevSiblings(doc, doc[sn.node].PrevSibling, sn)

AdjacentCombinatorSelectors(doc, sn) ==
    LET prev == doc[sn.node].PrevSibling
    IN  IF prev = 0
        THEN <<>>
        ELSE SiblingAttrs(doc[prev].Attr, 1, <<" ", "+", " ">>, sn)

GeneralCombinatorSelectors(doc, sn) ==
    LET prev == doc[sn.node].PrevSibling
    IN  IF prev = 0
        THEN <<>>
        ELSE SiblingAttrs(doc[prev].Attr, 1, <<" ", "~", " ">>, sn)

(***************************************************************************)
(* graph.go: SelectorDef.  The result is the index in defs of the          *)
(* definition returned, 0 for nil.                                         *)
(***************************************************************************)
combSelectors(doc, sel) ==
    DescCombinatorSelectors(doc, sel)
    \o ChildCombinatorSelectors(doc, sel)
    \o AdjacentCombinatorSelectors(doc, sel)
    \o GeneralCombinatorSelectors(doc, sel)

\* for _, def := range defs { if def.Name == sel.sel.String() { return def } }
RECURSIVE SelectorDefDirect(_, _, _)
SelectorDefDirect(defs, sel, d) ==
    IF d > Len(defs) THEN 0
    ELSE IF defs[d].Name = sel.sel THEN d
    ELSE SelectorDefDirect(defs, sel, d + 1)

\* Variant of SelectorDefComb with the loops nested the other way round:
\* for _, cs := range combSelectors { for _, def := range defs { ... } }
RECURSIVE SelectorDefCombByCandidate(_, _, _)
SelectorDefCombByCandidate(defs, cands, c) ==
    IF c > Len(cands) THEN 0
    ELSE IF \E d \in 1..Len(defs) : defs[d].Name = cands[c]
    THEN CHOOSE d \in 1..Len(defs) :
             /\ defs[d].Name = cands[c]
             /\ \A e \in 1..(d - 1) : defs[e].Name # cands[c]
    ELSE SelectorDefCombByCandidate(defs, cands, c + 1)

\* for _, def := range defs { for _, cs := range combSelectors { ... } }
RECURSIVE SelectorDefComb(_, _, _)
SelectorDefComb(defs, cands, d) ==
    IF d > Len(defs) THEN 0
    ELSE IF \E c \in 1..Len(cands) : defs[d].Name = cands[c] THEN d
    ELSE SelectorDefComb(defs, cands, d + 1)

\* Variant of SelectorDef with a single loop, the direct name being one more
\* candidate.
SelectorDefOneLoop(defs, doc, sel) ==
    SelectorDefComb(defs, <<sel.sel>> \o combSelectors(doc, sel), 1)

SelectorDef(defs, doc, sel) ==
    LET direct == SelectorDefDirect(defs, sel, 1)
    IN  IF direct # 0
        THEN direct
        ELSE SelectorDefComb(defs, combSelectors(doc, sel), 1)

(***************************************************************************)
(* graph.Def, graph.Ref and the uint32 of their offsets.  A uint32 is kept *)
(* as its two 16-bit halves, so that uint32(-1) is representable.          *)
(***************************************************************************)
Half == 65536

\* uint32(x), had a negative x been converted to 0.
Uint32NoWrap(x) ==
    IF x < 0 THEN [hi |-> 0, lo |-> 0] ELSE [hi |-> (x \div Half) % Half, lo |-> x % Half]

\* uint32(x) of an int x: x modulo 2^32.
Uint32(x) == [hi |-> (x \div Half) % Half, lo |-> x % Half]

\* a + b on uint32, wrapping around.
Add32(a, b) ==
    [hi |-> (a.hi + b.hi + ((a.lo + b.lo) \div Half)) % Half,
     lo |-> (a.lo + b.lo) % Half]

Def(unit, path, name, file, defStart, defEnd, kind) ==
    [DefKey |-> [UnitType |-> "basic-css", Unit |-> unit, Path |-> path],
     Name |-> name, File |-> file, DefStart |-> defStart, DefEnd |-> defEnd,
     Data |-> [Keyword |-> "selector", Kind |-> kind]]

Ref(defUnitType, defUnit, defPath, unit, file, isDef, start, end) ==
    [DefUnitType |-> defUnitType, DefUnit |-> defUnit, DefPath |-> defPath,
     Unit |-> unit, File |-> file, Def |-> isDef, Start |-> start, End |-> end]

(***************************************************************************)
(* package filepath (Unix) and strings.ToLower, as far as the grapher and  *)
(* the scanner call them.                                                  *)
(***************************************************************************)
Separator == "/"

\* filepath.ToSlash: every Separator becomes "/".
ToSlash(path) ==
    [k \in 1..Len(path) |-> IF path[k] = Separator THEN "/" ELSE path[k]]

\* The elements Clean keeps: "" and "." are dropped, ".." removes the element
\* before it, or is kept when there is none to remove and the path is not
\* rooted.
RECURSIVE CleanElems(_, _, _, _)
CleanElems(elems, k, rooted, kept) ==
    IF k > Len(elems) THEN kept
    ELSE LET e == elems[k] IN
         IF e = <<>> \/ e = <<".">>
         THEN CleanElems(elems, k + 1, rooted, kept)
         ELSE IF e = <<".", ".">>
         THEN IF kept # <<>> /\ kept[Len(kept)] # <<".", ".">>
              THEN CleanElems(elems, k + 1, rooted, SubSeq(kept, 1, Len(kept) - 1))
              ELSE IF rooted
              THEN CleanElems(elems, k + 1, rooted, kept)
              ELSE CleanElems(elems, k + 1, rooted, Append(kept, e))
         ELSE CleanElems(elems, k + 1, rooted, Append(kept, e))

RECURSIVE JoinElems(_, _)
JoinElems(elems, k) ==
    IF k > Len(elems) THEN <<>>
    ELSE (IF k > 1 THEN <<Separator>> ELSE <<>>) \o elems[k] \o JoinElems(elems, k + 1)

Clean(path) ==
    IF path = <<>> THEN <<".">>
    ELSE LET rooted == path[1] = Separator
             kept   == CleanElems(Split(path, Separator), 1, rooted, <<>>)
             out    == (IF rooted THEN <<Separator>> ELSE <<>>) \o JoinElems(kept, 1)
         IN  IF out = <<>> THEN <<".">> ELSE out

\* filepath.Join(root, name)
Join(root, name) ==
    IF root # <<>> THEN Clean(root \o <<Separator>> \o name)
    ELSE IF name # <<>> THEN Clean(name)
    ELSE <<>>

\* filepath.Dir: everything up to the last Separator, cleaned.
Dir(path) ==
    LET seps == {k \in 1..Len(path) : path[k] = Separator}
        last == IF seps = {} THEN 0
                ELSE CHOOSE k \in seps : \A j \in seps : j <= k
    IN  Clean(SubSeq(path, 1, last))

\* filepath.Ext: from the last "." of the last element of the path.
Ext(path) ==
    LET seps  == {k \in 1..Len(path) : path[k] = Separator}
        start == IF seps = {} THEN 0
                 ELSE CHOOSE k \in seps : \A j \in seps : j <= k
        dots  == {k \in (start + 1)..Len(path) : path[k] = "."}
    IN  IF dots = {} THEN <<>>
        ELSE SubSeq(path, CHOOSE k \in dots : \A j \in dots : j <= k, Len(path))

UpperCase ==
    <<"A", "B", "C", "D", "E", "F", "G", "H", "I", "J", "K", "L", "M",
      "N", "O", "P", "Q", "R", "S", "T", "U", "V", "W", "X", "Y", "Z">>

LowerCase ==
    <<"a", "b", "c", "d", "e", "f", "g", "h", "i", "j", "k", "l", "m",
      "n", "o", "p", "q", "r", "s", "t", "u", "v", "w", "x", "y", "z">>

ToLower(s) ==
    [k \in 1..Len(s) |->
        IF \E j \in 1..Len(UpperCase) : UpperCase[j] = s[k]
        THEN LowerCase[CHOOSE j \in 1..Len(UpperCase) : UpperCase[j] = s[k]]
        ELSE s[k]]

(***************************************************************************)
(* scan.go                                                                 *)
(***************************************************************************)
isCSSFile(filename) ==
    /\ Ext(filename) = <<".", "c", "s", "s">>
    /\ ~HasSuffix(filename, <<".", "m", "i", "n", ".", "c", "s", "s">>)

isHTMLFile(filename) ==
    LET f == ToLower(filename)
    IN  \/ /\ Ext(f) = <<".", "h", "t", "m">>
           /\ ~HasSuffix(f, <<".", "m", "i", "n", ".", "h", "t", "m">>)
        \/ /\ Ext(f) = <<".", "h", "t", "m", "l">>
           /\ ~HasSuffix(f, <<".", "m", "i", "n", ".", "h", "t", "m", "l">>)

(***************************************************************************)
(* graph.go: offsets, documentation paths, definitions of a stylesheet.    *)
(***************************************************************************)
mdnCSSReferenceURL ==
    <<"h", "t", "t", "p", "s", ":", "/", "/", "d", "e", "v", "e", "l", "o",
      "p", "e", "r", ".", "m", "o", "z", "i", "l", "l", "a", ".", "o", "r",
      "g", "/", "e", "n", "-", "U", "S", "/", "d", "o", "c", "s", "/", "W",
      "e", "b", "/", "C", "S", "S", "/">>

\* The loop of findOffsets, had offset counted characters.
RECURSIVE findOffsetsLoopRuneOffsets(_, _, _, _, _, _, _, _)
findOffsetsLoopRuneOffsets(fileText, line, column, token, k, offset, currentLine, currentCol) ==
    IF k > Len(fileText)
    THEN <<-1, -1>>
    ELSE IF currentLine = line /\ currentCol = column
    THEN <<k - 1, k - 1 + Len(token)>>
    ELSE IF fileText[k] = "\n"
    THEN findOffsetsLoopRuneOffsets(fileText, line, column, token, k + 1,
                                    offset + 1, currentLine + 1, 1)
    ELSE findOffsetsLoopRuneOffsets(fileText, line, column, token, k + 1,
                                    offset + 1, currentLine, currentCol + 1)

\* The loop of findOffsets, had it tested the position once more after the
\* last character.
RECURSIVE findOffsetsLoopAtEOF(_, _, _, _, _, _, _, _)
findOffsetsLoopAtEOF(fileText, line, column, token, k, offset, currentLine, currentCol) ==
    IF currentLine = line /\ currentCol = column
    THEN <<offset, offset + ByteLen(token)>>
    ELSE IF k > Len(fileText)
    THEN <<-1, -1>>
    ELSE IF fileText[k] = "\n"
    THEN findOffsetsLoopAtEOF(fileText, line, column, token, k + 1,
                              offset + ByteLen(<<fileText[k]>>), currentLine + 1, 1)
    ELSE findOffsetsLoopAtEOF(fileText, line, column, token, k + 1,
                              offset + ByteLen(<<fileText[k]>>), currentLine,
                              currentCol + 1)

\* The `for offset, ch := range fileText` loop of findOffsets: ch is the k-th
\* character of fileText and offset the index of its first byte.
RECURSIVE findOffsetsLoop(_, _, _, _, _, _, _, _)
findOffsetsLoop(fileText, line, column, token, k, offset, currentLine, currentCol) ==
    IF k > Len(fileText)
    THEN <<-1, -1>>
    ELSE IF currentLine = line /\ currentCol = column
    THEN <<offset, offset + ByteLen(token)>>
    ELSE IF fileText[k] = "\n"
    THEN findOffsetsLoop(fileText, line, column, token, k + 1,
                         offset + ByteLen(<<fileText[k]>>), currentLine + 1, 1)
    ELSE findOffsetsLoop(fileText, line, column, token, k + 1,
                         offset + ByteLen(<<fileText[k]>>), currentLine,
                         currentCol + 1)

findOffsets(fileText, line, column, token) ==
    findOffsetsLoop(fileText, line, column, token, 1, 0, 1, 1)

\* vendorPrefixRegExp.ReplaceAllString(cssProperty, ""): the alternatives are
\* anchored at the start and tried in order.
StripVendorPrefix(cssProperty) ==
    LET cut(prefix) == SubSeq(cssProperty, Len(prefix) + 1, Len(cssProperty))
    IN  CASE HasPrefix(cssProperty, <<"-", "w", "e", "b", "k", "i", "t", "-">>)
               -> cut(<<"-", "w", "e", "b", "k", "i", "t", "-">>)
          [] HasPrefix(cssProperty, <<"-", "m", "o", "z", "-">>)
               -> cut(<<"-", "m", "o", "z", "-">>)
          [] HasPrefix(cssProperty, <<"-", "m", "s", "-">>)
               -> cut(<<"-", "m", "s", "-">>)
          [] HasPrefix(cssProperty, <<"-", "o", "-">>)
               -> cut(<<"-", "o", "-">>)
          [] OTHER -> cssProperty

\* mdnDefPath, had it kept the vendor prefix.
mdnDefPathKeepPrefix(cssProperty) == mdnCSSReferenceURL \o cssProperty

mdnDefPath(cssProperty) ==
    IF \/ HasPrefix(cssProperty, <<"-", "w", "e", "b", "k", "i", "t", "-">>)
       \/ HasPrefix(cssProperty, <<"-", "m", "o", "z", "-">>)
       \/ HasPrefix(cssProperty, <<"-", "m", "s", "-">>)
       \/ HasPrefix(cssProperty, <<"-", "o", "-">>)
    THEN mdnCSSReferenceURL \o StripVendorPrefix(cssProperty)
    ELSE mdnCSSReferenceURL \o cssProperty

selectorKind(selectorStr) ==
    IF HasPrefix(selectorStr, <<"#">>) THEN "id"
    ELSE IF HasPrefix(selectorStr, <<".">>) THEN "class"
    ELSE ""

selectorDefPath(filePath, s) == ToSlash(filePath) \o s

\* defExist, had it also compared the position of the selector.
defExistSamePosition(defs, def) ==
    \E k \in 1..Len(defs) :
        /\ defs[k].Name = def.Name
        /\ defs[k].DefKey.Path = def.DefKey.Path
        /\ defs[k].DefStart = def.DefStart

\* The defExist closure of doGraph; defs is out.Defs when it is called.
defExist(defs, def) ==
    \E k \in 1..Len(defs) :
        defs[k].Name = def.Name /\ defs[k].DefKey.Path = def.DefKey.Path

\* cssDefsAndRefs, had it made the definition-site Ref before asking
\* defExist.
cssDefsAndRefsRefBeforeDefExist(s, u, data, filePath, r, defs) ==
    LET found    == findOffsets(data, s.Line, s.Column, s.Value)
        defStart == IF found[1] = 0 THEN 1 ELSE found[1]
        defEnd   == found[2]
        def      == Def(u, selectorDefPath(filePath, s.Value), s.Value,
                        ToSlash(filePath), Uint32(defStart), Uint32(defEnd),
                        selectorKind(s.Value))
        ref      == Ref(def.DefKey.UnitType, def.DefKey.Unit, def.DefKey.Path,
                        def.DefKey.Unit, def.File, TRUE, def.DefStart, def.DefEnd)
    IN  IF defExist(defs, def)
        THEN [defs |-> <<>>, refs |-> <<ref>>]
        ELSE [defs |-> <<def>>, refs |-> <<ref>>]

\* cssDefsAndRefs returns (defs, refs, err); err is always nil, json.Marshal
\* of a DefData cannot fail.
cssDefsAndRefs(s, u, data, filePath, r, defs) ==
    LET found    == findOffsets(data, s.Line, s.Column, s.Value)
        defStart == IF found[1] = 0 THEN 1 ELSE found[1]
        defEnd   == found[2]
        def      == Def(u, selectorDefPath(filePath, s.Value), s.Value,
                        ToSlash(filePath), Uint32(defStart), Uint32(defEnd),
                        selectorKind(s.Value))
    IN  IF defExist(defs, def)
        THEN [defs |-> <<>>, refs |-> <<>>]
        ELSE [defs |-> <<def>>,
              refs |-> <<Ref(def.DefKey.UnitType, def.DefKey.Unit, def.DefKey.Path,
                             def.DefKey.Unit, def.File, TRUE,
                             def.DefStart, def.DefEnd)>>]

mdnCSSRefs(u, data, filePath, r) ==
    [k \in 1..Len(r.Declarations) |->
        LET d     == r.Declarations[k]
            found == findOffsets(data, d.Line, d.Column, d.Property)
        IN  Ref("URL", "MDN", mdnDefPath(d.Property), u, ToSlash(filePath),
                FALSE, Uint32(found[1]), Uint32(found[2]))]

\* The loop over r.Selectors in doGraph; out is [Defs, Refs].
RECURSIVE cssSelectors(_, _, _, _, _, _)
cssSelectors(out, u, data, f, r, k) ==
    IF k > Len(r.Selectors) THEN out
    ELSE LET s == r.Selectors[k] IN
         IF s.Value = <<>>
         THEN cssSelectors(out, u, data, f, r, k + 1)
         ELSE LET got == cssDefsAndRefs(s, u, data, f, r, out.Defs)
              IN  cssSelectors([Defs |-> out.Defs \o got.defs,
                                Refs |-> out.Refs \o got.refs],
                               u, data, f, r, k + 1)

\* The loop over stylesheet.Rules in doGraph.
RECURSIVE cssRules(_, _, _, _, _, _)
cssRules(out, u, data, f, rules, k) ==
    IF k > Len(rules) THEN out
    ELSE LET after == cssSelectors(out, u, data, f, rules[k], 1)
         IN  cssRules([Defs |-> after.Defs,
                       Refs |-> after.Refs \o mdnCSSRefs(u, data, f, rules[k])],
                      u, data, f, rules, k + 1)

(***************************************************************************)
(* graph.go: lastSelector.                                                 *)
(***************************************************************************)
selSplitFn(combinator) == combinator \in {">", "+", "~"}

\* strings.FieldsFunc(s, selSplitFn): the maximal runs of characters that
\* selSplitFn rejects; cur is the run being read from character k on.
RECURSIVE FieldsFunc(_, _, _)
FieldsFunc(s, k, cur) ==
    IF k > Len(s) THEN (IF cur = <<>> THEN <<>> ELSE <<cur>>)
    ELSE IF selSplitFn(s[k])
    THEN (IF cur = <<>> THEN <<>> ELSE <<cur>>) \o FieldsFunc(s, k + 1, <<>>)
    ELSE FieldsFunc(s, k + 1, Append(cur, s[k]))

IsSpace(ch) == ch \in {" ", "\t", "\n", "\r"}

\* strings.TrimSpace
TrimSpace(s) ==
    LET keep == {k \in 1..Len(s) : ~IsSpace(s[k])}
    IN  IF keep = {} THEN <<>>
        ELSE SubSeq(s, CHOOSE k \in keep : \A j \in keep : k <= j,
                       CHOOSE k \in keep : \A j \in keep : j <= k)

\* descSelectorRegexp.FindStringSubmatch(s) for ".*([\.\#].+)": "." stands
\* for any character but a line break, so a match lies within one line; the
\* leftmost match starts the first line that has a "." or "#" with a
\* character after it, ".*" takes all up to the last such "." or "#" of
\* that line, and the group runs from there to the end of the line.
descSelectorRegexpFindStringSubmatch(s) ==
    LET valid  == {g \in 1..Len(s) :
                      /\ s[g] \in {".", "#"}
                      /\ g + 1 <= Len(s)
                      /\ s[g + 1] # "\n"}
        nls    == {k \in 1..Len(s) : s[k] = "\n"}
        first  == CHOOSE g \in valid : \A h \in valid : g <= h
        before == {k \in nls : k < first}
        after  == {k \in nls : k > first}
        from   == IF before = {} THEN 1
                  ELSE 1 + CHOOSE k \in before : \A j \in before : j <= k
        to     == IF after = {} THEN Len(s)
                  ELSE (CHOOSE k \in after : \A j \in after : k <= j) - 1
        inLine == {g \in valid : from <= g /\ g <= to}
        group  == CHOOSE g \in inLine : \A h \in inLine : h <= g
    IN  IF valid = {} THEN <<>>
        ELSE <<SubSeq(s, from, to), SubSeq(s, group, to)>>

\* lastSelector returns a *selector, <<"sel", selector>>, or nil, <<"nil">>;
\* indexing the empty slice of fields is a run-time panic, <<"panic">>.
lastSelector(s) ==
    LET selectors == FieldsFunc(s, 1, <<>>)
    IN  IF Len(selectors) = 0 THEN <<"panic">>
        ELSE LET lastSel == TrimSpace(selectors[Len(selectors)])
                 matches == descSelectorRegexpFindStringSubmatch(lastSel)
             IN  IF Len(matches) # 2 THEN <<"nil">>
                 ELSE <<"sel", matches[2]>>

(***************************************************************************)
(* graph.go: htmlRefs.                                                     *)
(***************************************************************************)
normalizeStylesheetHREF(stylesheetHREF, root) == ToSlash(Join(root, stylesheetHREF))

\* The loop over t.Attr of a link tag: [href, isStylesheetLink].
RECURSIVE linkAttrs(_, _, _, _)
linkAttrs(attrs, k, href, isStylesheetLink) ==
    IF k > Len(attrs) THEN [href |-> href, isStylesheetLink |-> isStylesheetLink]
    ELSE linkAttrs(attrs, k + 1,
                   IF attrs[k].Key = "href" THEN attrs[k].Val ELSE href,
                   isStylesheetLink
                   \/ (attrs[k].Key = "rel"
                       /\ attrs[k].Val = <<"s", "t", "y", "l", "e", "s", "h", "e", "e", "t">>))

\* The LlinkTags loop over the tokens of the document, up to io.EOF.
RECURSIVE stylesheetHREFs(_, _, _)
stylesheetHREFs(tokens, k, filePath) ==
    IF k > Len(tokens) THEN <<>>
    ELSE LET t    == tokens[k]
             link == linkAttrs(t.Attr, 1, <<>>, FALSE)
         IN  (IF /\ t.Type \in {"StartTagToken", "SelfClosingTagToken"}
                 /\ t.Data = "link"
                 /\ link.isStylesheetLink
              THEN <<normalizeStylesheetHREF(link.href, Dir(filePath))>>
              ELSE <<>>)
             \o stylesheetHREFs(tokens, k + 1, filePath)

\* filterDefs, had its predicate accepted every definition.
filterDefsAll(defs, hrefs) == defs

\* filterDefs, had it gone through the stylesheet links and taken the
\* definitions of each in turn.
RECURSIVE filterDefsByLink(_, _)
filterDefsByLink(defs, hrefs) == IF hrefs = <<>> THEN <<>> ELSE SelectSeq(defs, LAMBDA def : def.File = Head(hrefs)) \o filterDefsByLink(defs, Tail(hrefs))

\* filterDefs with the predicate htmlRefs gives it.
filterDefs(defs, hrefs) ==
    SelectSeq(defs, LAMBDA def : \E k \in 1..Len(hrefs) : def.File = hrefs[k])

\* The loop over attrValues, had a value without a definition ended it.
RECURSIVE walkValsStopAtMiss(_, _, _, _, _, _, _, _, _)
walkValsStopAtMiss(u, filePath, defs, doc, n, key, attrValues, k, acc) ==
    IF k > Len(attrValues) THEN acc.refs
    ELSE LET val  == attrValues[k]
             end  == Add32(acc.start, Uint32(ByteLen(val)))
             def  == SelectorDef(defs, doc, selNode(selPrefix(key) \o val, n))
             next == Add32(end, Uint32(ByteLen(<<attrValSep>>)))
         IN  IF def = 0
             THEN acc.refs
             ELSE walkValsStopAtMiss(u, filePath, defs, doc, n, key, attrValues, k + 1,
                           [start |-> next,
                            refs  |-> Append(acc.refs,
                                Ref("basic-css", u, defs[def].DefKey.Path, u,
                                    ToSlash(filePath), FALSE, acc.start, end))])

\* The loop over attrValues, had a token without Definition left start where
\* it was.
RECURSIVE walkValsMissKeepsStart(_, _, _, _, _, _, _, _, _)
walkValsMissKeepsStart(u, filePath, defs, doc, n, key, attrValues, k, acc) ==
    IF k > Len(attrValues) THEN acc.refs
    ELSE LET val  == attrValues[k]
             end  == Add32(acc.start, Uint32(ByteLen(val)))
             def  == SelectorDef(defs, doc, selNode(selPrefix(key) \o val, n))
             next == Add32(end, Uint32(ByteLen(<<attrValSep>>)))
         IN  IF def = 0
             THEN walkValsMissKeepsStart(u, filePath, defs, doc, n, key, attrValues,
                                         k + 1, acc)
             ELSE walkValsMissKeepsStart(u, filePath, defs, doc, n, key, attrValues,
                           k + 1,
                           [start |-> next,
                            refs  |-> Append(acc.refs,
                                Ref("basic-css", u, defs[def].DefKey.Path, u,
                                    ToSlash(filePath), FALSE, acc.start, end))])

\* The loop over attrValues in walk: acc is [start, refs].
RECURSIVE walkVals(_, _, _, _, _, _, _, _, _)
walkVals(u, filePath, defs, doc, n, key, attrValues, k, acc) ==
    IF k > Len(attrValues) THEN acc.refs
    ELSE LET val  == attrValues[k]
             end  == Add32(acc.start, Uint32(ByteLen(val)))
             def  == SelectorDef(defs, doc, selNode(selPrefix(key) \o val, n))
             next == Add32(end, Uint32(ByteLen(<<attrValSep>>)))
         IN  IF def = 0
             THEN walkVals(u, filePath, defs, doc, n, key, attrValues, k + 1,
                           [start |-> next, refs |-> acc.refs])
             ELSE walkVals(u, filePath, defs, doc, n, key, attrValues, k + 1,
                           [start |-> next,
                            refs  |-> Append(acc.refs,
                                Ref("basic-css", u, defs[def].DefKey.Path, u,
                                    ToSlash(filePath), FALSE, acc.start, end))])

RECURSIVE walkAttrs(_, _, _, _, _, _, _)
walkAttrs(u, filePath, defs, doc, n, k, refs) ==
    LET attrs == doc[n].Attr IN
    IF k > Len(attrs) THEN refs
    ELSE IF attrs[k].Key # "id" /\ attrs[k].Key # "class"
    THEN walkAttrs(u, filePath, defs, doc, n, k + 1, refs)
    ELSE walkAttrs(u, filePath, defs, doc, n, k + 1,
                   walkVals(u, filePath, defs, doc, n, attrs[k].Key,
                            Split(attrs[k].Val, attrValSep), 1,
                            [start |-> Uint32(attrs[k].ValStart), refs |-> refs]))

\* walk(n), and its loop `for c := n.FirstChild; c != nil; c = c.NextSibling`.
RECURSIVE walk(_, _, _, _, _, _)
RECURSIVE walkChildren(_, _, _, _, _, _)
walk(u, filePath, defs, doc, n, refs) ==
    walkChildren(u, filePath, defs, doc, doc[n].FirstChild,
                 IF doc[n].Type = ElementNode
                 THEN walkAttrs(u, filePath, defs, doc, n, 1, refs)
                 ELSE refs)

walkChildren(u, filePath, defs, doc, c, refs) ==
    IF c = 0 THEN refs
    ELSE walkChildren(u, filePath, defs, doc, doc[c].NextSibling,
                      walk(u, filePath, defs, doc, c, refs))

\* htmlRefs on the tokens and the tree the html package makes of data; the
\* readers are strings.Readers, which end with io.EOF and no other error.
htmlRefs(u, tokens, doc, filePath, selectorDefs) ==
    LET defs == filterDefs(selectorDefs, stylesheetHREFs(tokens, 1, filePath))
    IN  IF Len(defs) = 0
        THEN <<>>
        ELSE walk(u, filePath, defs, doc, 1, <<>>)

(***************************************************************************)
(* The files of the unit's directory, and what ioutil.ReadFile, the CSS    *)
(* parser, the HTML tokenizer and the HTML parser return for them.         *)
(***************************************************************************)
aCssPath ==
    <<"a", ".", "c", "s", "s">>

bCssPath ==
    <<"b", ".", "c", "s", "s">>

eCssPath ==
    <<"e", ".", "c", "s", "s">>

mCssPath ==
    <<"m", ".", "c", "s", "s">>

pCssPath ==
    <<"p", ".", "c", "s", "s">>

cCssPath ==
    <<"c", ".", "c", "s", "s">>

\* c.css.css
cCssCssPath ==
    cCssPath \o <<".", "c", "s", "s">>

iHtmlPath ==
    <<"i", ".", "h", "t", "m", "l">>

jHtmlPath ==
    <<"j", ".", "h", "t", "m", "l">>

kHtmPath ==
    <<"d", "/", "K", ".", "H", "T", "M">>

nHtmlPath ==
    <<"n", ".", "h", "t", "m", "l">>

aCssData ==
    <<".", "a", "{", "x", ":", "0", "}", "\n", ".", "a", ",", "#", "b", "{",
      "}", "\n", "#", "b", " ", ">", " ", ".", "c", "{", "}", "\n">>

bCssData ==
    <<".", "c", "{", "-", "o", "-", "y", ":", "0", "}", "\n", ".", "a", "{",
      "}", "\n", "{", "z", ":", "0", "}", "\n">>

eCssData ==
    <<"}">>

\* The two rules of p.css are separated by a carriage return.
pCssData ==
    <<"p", "{", "}", "\r", "#", "p", "{", "w", ":", "0", "}">>

\* c.css: an element of the classes css and x.
cCssData ==
    <<".", "c", "s", "s", ".", "x", "{", "}">>

\* c.css.css
cCssCssData ==
    <<".", "x", "{", "}">>

iHtmlData ==
    <<"<", "h", "t", "m", "l", ">", "<", "h", "e", "a", "d", ">", "<", "l",
      "i", "n", "k", " ", "r", "e", "l", "=", "\"", "s", "t", "y", "l", "e",
      "s", "h", "e", "e", "t", "\"", " ", "h", "r", "e", "f", "=", "\"", "a",
      ".", "c", "s", "s", "\"", ">", "<", "/", "h", "e", "a", "d", ">", "<",
      "b", "o", "d", "y", ">", "<", "d", "i", "v", " ", "i", "d", "=", "\"",
      "b", "\"", ">", "<", "p", " ", "c", "l", "a", "s", "s", "=", "\"", "c",
      " ", "a", "\"", ">", "<", "/", "p", ">", "<", "/", "d", "i", "v", ">",
      "<", "/", "b", "o", "d", "y", ">", "<", "/", "h", "t", "m", "l", ">">>

jHtmlData ==
    <<"<", "d", "i", "v", " ", "c", "l", "a", "s", "s", "=", "\"", "a", "\"",
      ">", "<", "/", "d", "i", "v", ">">>

kHtmData ==
    <<"<", "l", "i", "n", "k", " ", "r", "e", "l", "=", "\"", "s", "t", "y",
      "l", "e", "s", "h", "e", "e", "t", "\"", " ", "h", "r", "e", "f", "=",
      "\"", ".", ".", "/", "b", ".", "c", "s", "s", "\"", ">", "<", "l", "i",
      "n", "k", " ", "r", "e", "l", "=", "\"", "s", "t", "y", "l", "e", "s",
      "h", "e", "e", "t", "\"", " ", "h", "r", "e", "f", "=", "\"", "a", ".",
      "c", "s", "s", "\"", ">", "<", "p", " ", "i", "d", "=", "\"", "b",
      "\"", " ", "c", "l", "a", "s", "s", "=", "\"", "a", "\"", ">", "<",
      "/", "p", ">">>

nHtmlData ==
    <<"<", "l", "i", "n", "k", " ", "r", "e", "l", "=", "\"", "s", "t", "y",
      "l", "e", "s", "h", "e", "e", "t", "\"", " ", "h", "r", "e", "f", "=",
      "\"", "b", ".", "c", "s", "s", "\"", ">", "<", "p", " ", "c", "l", "a",
      "s", "s", "=", "\"", "z", " ", "c", "\"", ">", "<", "i", " ", "i", "d",
      "=", "\"", "q", "\"", " ", "c", "l", "a", "s", "s", "=", "\"", "a",
      "\"", ">", "<", "/", "i", ">", "<", "/", "p", ">">>

\* m.css is in the unit and cannot be read.
ReadFile(f) ==
    CASE f = aCssPath  -> [err |-> FALSE, data |-> aCssData]
      [] f = bCssPath  -> [err |-> FALSE, data |-> bCssData]
      [] f = eCssPath  -> [err |-> FALSE, data |-> eCssData]
      [] f = pCssPath  -> [err |-> FALSE, data |-> pCssData]
      [] f = cCssPath  -> [err |-> FALSE, data |-> cCssData]
      [] f = cCssCssPath -> [err |-> FALSE, data |-> cCssCssData]
      [] f = iHtmlPath -> [err |-> FALSE, data |-> iHtmlData]
      [] f = jHtmlPath -> [err |-> FALSE, data |-> jHtmlData]
      [] f = kHtmPath  -> [err |-> FALSE, data |-> kHtmData]
      [] f = nHtmlPath -> [err |-> FALSE, data |-> nHtmlData]
      [] OTHER         -> [err |-> TRUE, data |-> <<>>]

Selector(value, line, column) == [Value |-> value, Line |-> line, Column |-> column]

Declaration(property, line, column) ==
    [Property |-> property, Line |-> line, Column |-> column]

Rule(selectors, declarations) ==
    [Selectors |-> selectors, Declarations |-> declarations]

\* cssParser.Parse: the rules with the 1-based positions of their selectors
\* and properties; the third rule of b.css has an empty selector, and the
\* second rule of p.css is reported on line 2.
cssParserParse(data) ==
    CASE data = aCssData ->
           [err |-> FALSE,
            Rules |-> <<Rule(<<Selector(<<".", "a">>, 1, 1)>>,
                             <<Declaration(<<"x">>, 1, 4)>>),
                        Rule(<<Selector(<<".", "a">>, 2, 1),
                               Selector(<<"#", "b">>, 2, 4)>>, <<>>),
                        Rule(<<Selector(<<"#", "b", " ", ">", " ", ".", "c">>, 3, 1)>>,
                             <<>>)>>]
      [] data = bCssData ->
           [err |-> FALSE,
            Rules |-> <<Rule(<<Selector(<<".", "c">>, 1, 1)>>,
                             <<Declaration(<<"-", "o", "-", "y">>, 1, 4)>>),
                        Rule(<<Selector(<<".", "a">>, 2, 1)>>, <<>>),
                        Rule(<<Selector(<<>>, 3, 1)>>,
                             <<Declaration(<<"z">>, 3, 2)>>)>>]
      [] data = pCssData ->
           [err |-> FALSE,
            Rules |-> <<Rule(<<Selector(<<"p">>, 1, 1)>>, <<>>),
                        Rule(<<Selector(<<"#", "p">>, 2, 1)>>,
                             <<Declaration(<<"w">>, 2, 4)>>)>>]
      [] data = cCssData ->
           [err |-> FALSE,
            Rules |-> <<Rule(<<Selector(<<".", "c", "s", "s", ".", "x">>, 1, 1)>>,
                             <<>>)>>]
      [] data = cCssCssData ->
           [err |-> FALSE,
            Rules |-> <<Rule(<<Selector(<<".", "x">>, 1, 1)>>, <<>>)>>]
      [] OTHER -> [err |-> TRUE, Rules |-> <<>>]

Token(type, data, attr) == [Type |-> type, Data |-> data, Attr |-> attr]

relStylesheet(valStart) ==
    Attribute("rel", <<"s", "t", "y", "l", "e", "s", "h", "e", "e", "t">>, valStart)

\* html.NewTokenizer(...).Next()/Token() up to the ErrorToken of io.EOF.
htmlTokens(data) ==
    CASE data = iHtmlData ->
           <<Token("StartTagToken", "html", <<>>),
             Token("StartTagToken", "head", <<>>),
             Token("StartTagToken", "link",
                   <<relStylesheet(23), Attribute("href", aCssPath, 41)>>),
             Token("EndTagToken", "head", <<>>),
             Token("StartTagToken", "body", <<>>),
             Token("StartTagToken", "div", <<Attribute("id", <<"b">>, 70)>>),
             Token("StartTagToken", "p", <<Attribute("class", <<"c", " ", "a">>, 83)>>),
             Token("EndTagToken", "p", <<>>),
             Token("EndTagToken", "div", <<>>),
             Token("EndTagToken", "body", <<>>),
             Token("EndTagToken", "html", <<>>)>>
      [] data = jHtmlData ->
           <<Token("StartTagToken", "div", <<Attribute("class", <<"a">>, 12)>>),
             Token("EndTagToken", "div", <<>>)>>
      [] data = kHtmData ->
           <<Token("StartTagToken", "link",
                   <<relStylesheet(11),
                     Attribute("href", <<".", ".", "/">> \o bCssPath, 29)>>),
             Token("StartTagToken", "link",
                   <<relStylesheet(50), Attribute("href", aCssPath, 68)>>),
             Token("StartTagToken", "p",
                   <<Attribute("id", <<"b">>, 82), Attribute("class", <<"a">>, 92)>>),
             Token("EndTagToken", "p", <<>>)>>
      [] data = nHtmlData ->
           <<Token("StartTagToken", "link",
                   <<relStylesheet(11), Attribute("href", bCssPath, 29)>>),
             Token("StartTagToken", "p",
                   <<Attribute("class", <<"z", " ", "c">>, 46)>>),
             Token("StartTagToken", "i",
                   <<Attribute("id", <<"q">>, 58), Attribute("class", <<"a">>, 68)>>),
             Token("EndTagToken", "i", <<>>),
             Token("EndTagToken", "p", <<>>)>>
      [] OTHER -> <<>>

\* html.Parse: node 1 is the document node; html, head and body are there
\* whether or not the text has them.
htmlParse(data) ==
    CASE data = iHtmlData ->
           <<Node(DocumentNode, "", <<>>, 0, 2, 0, 0),
             Node(ElementNode, "html", <<>>, 1, 3, 0, 0),
             Node(ElementNode, "head", <<>>, 2, 4, 0, 5),
             Node(ElementNode, "link",
                  <<relStylesheet(23), Attribute("href", aCssPath, 41)>>, 3, 0, 0, 0),
             Node(ElementNode, "body", <<>>, 2, 6, 3, 0),
             Node(ElementNode, "div", <<Attribute("id", <<"b">>, 70)>>, 5, 7, 0, 0),
             Node(ElementNode, "p", <<Attribute("class", <<"c", " ", "a">>, 83)>>,
                  6, 0, 0, 0)>>
      [] data = jHtmlData ->
           <<Node(DocumentNode, "", <<>>, 0, 2, 0, 0),
             Node(ElementNode, "html", <<>>, 1, 3, 0, 0),
             Node(ElementNode, "head", <<>>, 2, 0, 0, 4),
             Node(ElementNode, "body", <<>>, 2, 5, 3, 0),
             Node(ElementNode, "div", <<Attribute("class", <<"a">>, 12)>>, 4, 0, 0, 0)>>
      [] data = kHtmData ->
           <<Node(DocumentNode, "", <<>>, 0, 2, 0, 0),
             Node(ElementNode, "html", <<>>, 1, 3, 0, 0),
             Node(ElementNode, "head", <<>>, 2, 4, 0, 6),
             Node(ElementNode, "link",
                  <<relStylesheet(11),
                    Attribute("href", <<".", ".", "/">> \o bCssPath, 29)>>, 3, 0, 0, 5),
             Node(ElementNode, "link",
                  <<relStylesheet(50), Attribute("href", aCssPath, 68)>>, 3, 0, 4, 0),
             Node(ElementNode, "body", <<>>, 2, 7, 3, 0),
             Node(ElementNode, "p",
                  <<Attribute("id", <<"b">>, 82), Attribute("class", <<"a">>, 92)>>,
                  6, 0, 0, 0)>>
      [] data = nHtmlData ->
           <<Node(DocumentNode, "", <<>>, 0, 2, 0, 0),
             Node(ElementNode, "html", <<>>, 1, 3, 0, 0),
             Node(ElementNode, "head", <<>>, 2, 4, 0, 5),
             Node(ElementNode, "link",
                  <<relStylesheet(11), Attribute("href", bCssPath, 29)>>, 3, 0, 0, 0),
             Node(ElementNode, "body", <<>>, 2, 6, 3, 0),
             Node(ElementNode, "p", <<Attribute("class", <<"z", " ", "c">>, 46)>>,
                  5, 7, 0, 0),
             Node(ElementNode, "i",
                  <<Attribute("id", <<"q">>, 58), Attribute("class", <<"a">>, 68)>>,
                  6, 0, 0, 0)>>
      [] OTHER -> <<Node(DocumentNode, "", <<>>, 0, 0, 0, 0)>>

UnitFiles ==
    {aCssPath, bCssPath, cCssPath, cCssCssPath, eCssPath, mCssPath, pCssPath,
     iHtmlPath, jHtmlPath, kHtmPath, nHtmlPath}

\* u.Name
UnitName == "u"

(***************************************************************************)
(* The inputs of the combinator engine.                                    *)
(*                                                                         *)
(* The nodes of graph_test.go, built as the tests build them: only Parent  *)
(* (or PrevSibling) is set.                                                *)
(***************************************************************************)
DescTestDoc ==
    <<Node(ElementNode, "",
           <<Attribute("class", <<"c", "o", "n", "t", "a", "i", "n", "e", "r", "-", "i", "n", "n", "e", "r", " ", "c", "o", "l", "-", "x", "s", "-", "1", "2">>, 0)>>,
           2, 0, 0, 0),
      Node(ElementNode, "",
           <<Attribute("id", <<"c", "o", "n", "t", "a", "i", "n", "e", "r", " ", "c", "o", "n", "t", "a", "i", "n", "e", "r", "2">>, 0),
             Attribute("class", <<"s", "e", "c", "t", "i", "o", "n", " ", "c", "o", "l", "-", "x", "s", "-", "1", "2", " ", "c", "e", "n", "t", "e", "r">>, 0)>>,
           3, 0, 0, 0),
      Node(ElementNode, "",
           <<Attribute("id", <<"c", "o", "n", "t", "a", "i", "n", "e", "r", "-", "w", "r", "a", "p", "p", "e", "r">>, 0),
             Attribute("class", <<"c", "o", "l", "-", "x", "s", "-", "6">>, 0)>>,
           4, 0, 0, 0),
      Node(ElementNode, "",
           <<Attribute("id", <<"a", "p", "p">>, 0)>>,
           0, 0, 0, 0)>>

ChildTestDoc ==
    <<Node(ElementNode, "",
           <<Attribute("id", <<"c", "o", "n", "t", "a", "i", "n", "e", "r", "-", "i", "n", "n", "e", "r">>, 0),
             Attribute("class", <<"c", "o", "n", "t", "a", "i", "n", "e", "r", "-", "i", "n", "n", "e", "r">>, 0)>>,
           2, 0, 0, 0),
      Node(ElementNode, "",
           <<Attribute("id", <<"c", "o", "n", "t", "a", "i", "n", "e", "r", " ", "c", "o", "n", "t", "a", "i", "n", "e", "r", "2">>, 0),
             Attribute("class", <<"s", "e", "c", "t", "i", "o", "n">>, 0)>>,
           3, 0, 0, 0),
      Node(ElementNode, "",
           <<Attribute("id", <<"c", "o", "n", "t", "a", "i", "n", "e", "r", "-", "w", "r", "a", "p", "p", "e", "r">>, 0),
             Attribute("class", <<"c", "o", "l", "-", "x", "s", "-", "6">>, 0)>>,
           0, 0, 0, 0)>>

AdjacentTestDoc ==
    <<Node(ElementNode, "",
           <<Attribute("id", <<"c", "o", "n", "t", "e", "n", "t", "-", "a", "s", "i", "d", "e">>, 0),
             Attribute("class", <<"a", "s", "i", "d", "e">>, 0)>>,
           0, 0, 2, 0),
      Node(ElementNode, "",
           <<Attribute("id", <<"t", "o", "o", "l", "b", "a", "r", "-", "a", "s", "i", "d", "e">>, 0),
             Attribute("class", <<"s", "e", "c", "t", "i", "o", "n", " ", "c", "o", "l", "-", "x", "s", "-", "6", " ", "c", "e", "n", "t", "e", "r">>, 0)>>,
           0, 0, 0, 0)>>

GeneralTestDoc ==
    <<Node(ElementNode, "",
           <<Attribute("class", <<"a", "s", "i", "d", "e">>, 0)>>,
           0, 0, 2, 0),
      Node(ElementNode, "",
           <<Attribute("id", <<"a", "s", "i", "d", "e", "-", "s", "e", "c", "o", "n", "d", "-", "s", "i", "b", "l", "i", "n", "g">>, 0),
             Attribute("class", <<"c", "o", "l", "-", "x", "s", "-", "6">>, 0)>>,
           0, 0, 0, 0)>>

ContainerInnerSel == <<".", "c", "o", "n", "t", "a", "i", "n", "e", "r", "-", "i", "n", "n", "e", "r">>

AsideSel == <<".", "a", "s", "i", "d", "e">>

(***************************************************************************)
(* Generated documents: the target element (class="x a", matched as ".x"), *)
(* its preceding siblings (nearest first), its ancestors (nearest first)   *)
(* and the document node html.Parse puts at the root.                      *)
(***************************************************************************)
SeqsUpTo(S, n) == UNION {[1..k -> S] : k \in 0..n}

AttrChoices ==
    { <<>>,
      <<Attribute("id", <<"a">>, 0), Attribute("class", <<"b", " ", "c">>, 0)>>,
      <<Attribute("title", <<"t">>, 0), Attribute("class", <<"b">>, 0)>> }

TargetAttr == <<Attribute("class", <<"x", " ", "a">>, 0)>>

TargetSel == <<".", "x">>

MkTree(anc, sib) ==
    LET S    == Len(sib)
        D    == Len(anc)
        root == 2 + S + D
        up   == IF D > 0 THEN 2 + S ELSE root
    IN  [n \in 1..root |->
            IF n = 1
            THEN Node(ElementNode, "div", TargetAttr, up, 0,
                      IF S > 0 THEN 2 ELSE 0, 0)
            ELSE IF n <= 1 + S
            THEN Node(ElementNode, "div", sib[n - 1], up, 0,
                      IF n < 1 + S THEN n + 1 ELSE 0, n - 1)
            ELSE IF n < root
            THEN Node(ElementNode, "div", anc[n - 1 - S],
                      IF n - 1 - S < D THEN n + 1 ELSE root,
                      IF n = 2 + S THEN 1 + S ELSE n - 1, 0, 0)
            ELSE Node(DocumentNode, "", <<>>, 0,
                      IF D > 0 THEN root - 1 ELSE 1 + S, 0, 0)]

CombInputs ==
    { <<MkTree(anc, sib), selNode(TargetSel, 1)>> :
          anc \in SeqsUpTo(AttrChoices, MaxDepth),
          sib \in SeqsUpTo(AttrChoices, MaxSiblings) }
    \cup { <<DescTestDoc, selNode(ContainerInnerSel, 1)>>,
           <<ChildTestDoc, selNode(ContainerInnerSel, 1)>>,
           <<AdjacentTestDoc, selNode(AsideSel, 1)>>,
           <<GeneralTestDoc, selNode(AsideSel, 1)>> }

\* The selector chains a stylesheet may define for the target: the direct
\* name and one chain per combinator form through a token "#a".
DefNames ==
    { <<".", "x">>,
      <<"#", "a", " ", ".", "x">>,
      <<"#", "a", " ", ">", " ", ".", "x">>,
      <<"#", "a", " ", "+", " ", ".", "x">>,
      <<"#", "a", " ", "~", " ", ".", "x">> }

VisibleDef(name) ==
    Def("u", aCssPath \o name, name, aCssPath, Uint32(1), Uint32(1 + Len(name)), "")

DefChoices ==
    { <<VisibleDef(n)>> : n \in DefNames }
    \cup { <<VisibleDef(p[1]), VisibleDef(p[2])>> :
               p \in {q \in DefNames \X DefNames : q[1] # q[2]} }

(***************************************************************************)
(* The combinator engine as a state machine: one input, one application.   *)
(***************************************************************************)
\* No combinator walk is being run step by step.
WalkIdle ==
    frame = [fn |-> "none", pc |-> "idle", currentNode |-> 0, attr |-> 0, val |-> 0,
            s |-> 0, n |-> 0, selectors |-> <<>>]

FnIdle ==
    /\ fn = "none"
    /\ args = <<>>
    /\ returned = FALSE
    /\ ret = <<>>

GraphIdle ==
    /\ units = <<>>
    /\ err = "nil"
    /\ files = <<>>
    /\ pc = "done"
    /\ i = 0
    /\ outDefs = <<>>
    /\ outRefs = <<>>

CombIdle ==
    /\ tree = <<>>
    /\ target = selNode(<<>>, 0)
    /\ visible = <<>>
    /\ op = "none"
    /\ result = <<>>

CombInit ==
    /\ GraphIdle
    /\ FnIdle
    /\ WalkIdle
    /\ \E input \in CombInputs :
          /\ tree = input[1]
          /\ target = input[2]
    /\ visible = <<>>
    /\ op = "none"
    /\ result = <<>>

Desc ==
    /\ op = "none"
    /\ op' = "desc"
    /\ result' = DescCombinatorSelectors(tree, target)
    /\ UNCHANGED <<tree, target, visible, graphVars, fnVars, walkVars>>

Child ==
    /\ op = "none"
    /\ op' = "child"
    /\ result' = ChildCombinatorSelectors(tree, target)
    /\ UNCHANGED <<tree, target, visible, graphVars, fnVars, walkVars>>

Adjacent ==
    /\ op = "none"
    /\ op' = "adjacent"
    /\ result' = AdjacentCombinatorSelectors(tree, target)
    /\ UNCHANGED <<tree, target, visible, graphVars, fnVars, walkVars>>

General ==
    /\ op = "none"
    /\ op' = "general"
    /\ result' = GeneralCombinatorSelectors(tree, target)
    /\ UNCHANGED <<tree, target, visible, graphVars, fnVars, walkVars>>

Resolve ==
    /\ op = "none"
    /\ \E defs \in DefChoices :
          /\ visible' = defs
          /\ result' = SelectorDef(defs, tree, target)
    /\ op' = "resolve"
    /\ UNCHANGED <<tree, target, graphVars, fnVars, walkVars>>

CombNext == Desc \/ Child \/ Adjacent \/ General \/ Resolve

SpecComb == CombInit /\ [][CombNext]_vars

(***************************************************************************)
(* doGraph as a state machine: one step per iteration of its two loops     *)
(* over u.Files.  pc is the loop doGraph is in, i the index of the file    *)
(* the next iteration takes, outDefs and outRefs are out.Defs and out.Refs.*)
(***************************************************************************)
\* The units are decoded from standard input, and Execute ends the program
\* when there is none.  The Files of a unit are any list of paths, in any
\* order, a path possibly more than once; units[k] is the Files of unit k.
UnitInputs ==
    {<<fs>> : fs \in SeqsUpTo(UnitFiles, MaxFiles)}
        \union {us \in SeqsUpTo(SeqsUpTo({aCssPath, iHtmlPath}, 2), MaxUnits) :
                    Len(us) > 1}

Init ==
    /\ units \in UnitInputs
    /\ err = "nil"
    /\ files = <<>>
    /\ pc = "graph"
    /\ i = 0
    /\ outDefs = <<>>
    /\ outRefs = <<>>
    /\ CombIdle
    /\ FnIdle
    /\ WalkIdle

\* What one iteration of the second loop appends to out.Refs for file f.
htmlFile(defs, f) ==
    LET read == ReadFile(f)
    IN  IF read.err THEN <<>>
        ELSE IF ~isHTMLFile(f) THEN <<>>
        ELSE htmlRefs(UnitName, htmlTokens(read.data), htmlParse(read.data), f, defs)

\* The first loop, had it handled the HTML files as it met them.
cssFileOnePass(out, f) ==
    LET read       == ReadFile(f)
        stylesheet == cssParserParse(read.data)
    IN  IF read.err THEN out
        ELSE IF isHTMLFile(f)
        THEN [Defs |-> out.Defs, Refs |-> out.Refs \o htmlFile(out.Defs, f)]
        ELSE IF ~isCSSFile(f) THEN out
        ELSE IF stylesheet.err THEN out
        ELSE cssRules(out, UnitName, read.data, f, stylesheet.Rules, 1)

\* The first loop, had it returned (nil, err) on a stylesheet that does not
\* parse: what was collected is lost.
cssFileParseErrorReturnsNil(out, f) ==
    LET read       == ReadFile(f)
        stylesheet == cssParserParse(read.data)
    IN  IF read.err THEN out
        ELSE IF ~isCSSFile(f) THEN out
        ELSE IF stylesheet.err THEN [Defs |-> <<>>, Refs |-> <<>>]
        ELSE cssRules(out, UnitName, read.data, f, stylesheet.Rules, 1)

\* What one iteration of the first loop makes of out for file f.
cssFile(out, f) ==
    LET read       == ReadFile(f)
        stylesheet == cssParserParse(read.data)
    IN  IF read.err THEN out
        ELSE IF ~isCSSFile(f) THEN out
        ELSE IF stylesheet.err THEN out
        ELSE cssRules(out, UnitName, read.data, f, stylesheet.Rules, 1)

\* Graph, had it taken the first unit however many there are.
GraphFirstUnit ==
    /\ pc = "graph"
    /\ pc' = "css"
    /\ files' = units[1]
    /\ i' = 1
    /\ UNCHANGED <<units, err, outDefs, outRefs, combVars, fnVars, walkVars>>

\* Graph up to its call of doGraph(units[0]) and the start of the first loop,
\* or its return of (nil, error).
Graph ==
    /\ pc = "graph"
    /\ IF Len(units) > 1
       THEN /\ err' = "unexpected multiple units"
            /\ pc' = "done"
            /\ UNCHANGED <<files, i>>
       ELSE /\ pc' = "css"
            /\ files' = units[1]
            /\ i' = 1
            /\ UNCHANGED err
    /\ UNCHANGED <<units, outDefs, outRefs, combVars, fnVars, walkVars>>

CssFile ==
    /\ pc = "css"
    /\ i <= Len(files)
    /\ LET out == cssFile([Defs |-> outDefs, Refs |-> outRefs], files[i])
       IN  /\ outDefs' = out.Defs
           /\ outRefs' = out.Refs
    /\ i' = i + 1
    /\ UNCHANGED <<units, err, files, pc, combVars, fnVars, walkVars>>

CssLoopEnd ==
    /\ pc = "css"
    /\ i > Len(files)
    /\ pc' = "html"
    /\ i' = 1
    /\ UNCHANGED <<units, err, files, outDefs, outRefs, combVars, fnVars, walkVars>>

HtmlFile ==
    /\ pc = "html"
    /\ i <= Len(files)
    /\ outRefs' = outRefs \o htmlFile(outDefs, files[i])
    /\ i' = i + 1
    /\ UNCHANGED <<units, err, files, pc, outDefs, combVars, fnVars, walkVars>>

Return ==
    /\ pc = "html"
    /\ i > Len(files)
    /\ pc' = "done"
    /\ UNCHANGED <<units, err, files, i, outDefs, outRefs, combVars, fnVars, walkVars>>

Next == Graph \/ CssFile \/ CssLoopEnd \/ HtmlFile \/ Return

Spec == Init /\ [][Next]_vars

(***************************************************************************)
(* The upward walk of DescCombinatorSelectors and ChildCombinatorSelectors *)
(* run one loop iteration at a time.  frame holds the local variables of    *)
(* the function: currentNode, the positions of the loops over              *)
(* currentNode.Attr (attr), attrValues (val) and selectors (s), and        *)
(* selectors.  A Go `range` over a slice reads the slice once, when the    *)
(* loop starts: n is the length selectors had then.                        *)
(***************************************************************************)
WalkFns == {"DescCombinatorSelectors", "ChildCombinatorSelectors"}

\* What Sprintf puts between selStr and the selector it is combined with.
walkFormat(f, selStr, sel) ==
    IF f = "DescCombinatorSelectors"
    THEN selStr \o <<" ">> \o sel
    ELSE selStr \o <<" ", ">", " ">> \o sel

\* The condition of the append inside `for _, s := range selectors`.
walkRangeCond(f, doc, s, currentNode) ==
    IF f = "DescCombinatorSelectors"
    THEN s.node # currentNode
    ELSE s.node # currentNode /\ doc[s.node].Parent = currentNode

\* The condition of the append that follows that loop.
walkSelfCond(f, doc, sn, currentNode) ==
    IF f = "DescCombinatorSelectors"
    THEN TRUE
    ELSE doc[sn.node].Parent = currentNode

\* The documents walked: the target below a chain of ancestors, and the
\* documents of the tests.
WalkInit ==
    /\ GraphIdle
    /\ FnIdle
    /\ \/ \E anc \in SeqsUpTo(AttrChoices, MaxDepth) :
             /\ tree = MkTree(anc, <<>>)
             /\ target = selNode(TargetSel, 1)
       \/ /\ tree \in {DescTestDoc, ChildTestDoc}
          /\ target = selNode(ContainerInnerSel, 1)
    /\ visible = <<>>
    /\ op = "none"
    /\ result = <<>>
    /\ \E f \in WalkFns :
          frame = [fn |-> f, pc |-> "node", currentNode |-> target.node,
                  attr |-> 0, val |-> 0, s |-> 0, n |-> 0, selectors |-> <<>>]

\* `if currentNode.Type == html.ElementNode` at the top of the `for { }`.
WalkNode ==
    /\ frame.pc = "node"
    /\ IF tree[frame.currentNode].Type = ElementNode
       THEN frame' = [frame EXCEPT !.pc = "attr", !.attr = 1]
       ELSE frame' = [frame EXCEPT !.pc = "parent"]
    /\ UNCHANGED <<graphVars, combVars, fnVars>>

\* One iteration of `for _, attr := range currentNode.Attr`, or its end.
WalkAttr ==
    /\ frame.pc = "attr"
    /\ LET attrs == tree[frame.currentNode].Attr
       IN  IF frame.attr > Len(attrs)
           THEN frame' = [frame EXCEPT !.pc = "parent"]
           ELSE IF attrs[frame.attr].Key # "id" /\ attrs[frame.attr].Key # "class"
           THEN frame' = [frame EXCEPT !.attr = @ + 1]
           ELSE frame' = [frame EXCEPT !.pc = "val", !.val = 1]
    /\ UNCHANGED <<graphVars, combVars, fnVars>>

\* One iteration of `for _, val := range attrValues` up to the loop over
\* selectors, or its end.
WalkVal ==
    /\ frame.pc = "val"
    /\ LET attrValues == Split(tree[frame.currentNode].Attr[frame.attr].Val, attrValSep)
       IN  IF frame.val > Len(attrValues)
           THEN frame' = [frame EXCEPT !.pc = "attr", !.attr = @ + 1]
           ELSE IF frame.currentNode = target.node
           THEN frame' = [frame EXCEPT !.val = @ + 1]
           ELSE frame' = [frame EXCEPT !.pc = "range", !.s = 1,
                                     !.n = Len(frame.selectors)]
    /\ UNCHANGED <<graphVars, combVars, fnVars>>

\* One iteration of `for _, s := range selectors`.
WalkRange ==
    /\ frame.pc = "range"
    /\ frame.s <= frame.n
    /\ LET a      == tree[frame.currentNode].Attr[frame.attr]
           selStr == selPrefix(a.Key) \o Split(a.Val, attrValSep)[frame.val]
           s      == frame.selectors[frame.s]
       IN  IF walkRangeCond(frame.fn, tree, s, frame.currentNode)
           THEN frame' = [frame EXCEPT
                           !.s = @ + 1,
                           !.selectors =
                               Append(@, selNode(walkFormat(frame.fn, selStr, s.sel),
                                                 frame.currentNode))]
           ELSE frame' = [frame EXCEPT !.s = @ + 1]
    /\ UNCHANGED <<graphVars, combVars, fnVars>>

\* The end of that loop and the append of selStr combined with sn.sel.
WalkRangeEnd ==
    /\ frame.pc = "range"
    /\ frame.s > frame.n
    /\ LET a      == tree[frame.currentNode].Attr[frame.attr]
           selStr == selPrefix(a.Key) \o Split(a.Val, attrValSep)[frame.val]
       IN  IF walkSelfCond(frame.fn, tree, target, frame.currentNode)
           THEN frame' = [frame EXCEPT
                           !.pc = "val",
                           !.val = @ + 1,
                           !.selectors =
                               Append(@, selNode(walkFormat(frame.fn, selStr, target.sel),
                                                 frame.currentNode))]
           ELSE frame' = [frame EXCEPT !.pc = "val", !.val = @ + 1]
    /\ UNCHANGED <<graphVars, combVars, fnVars>>

\* The walk, had it not moved to currentNode.Parent.
WalkParentStays ==
    /\ frame.pc = "parent"
    /\ IF tree[frame.currentNode].Parent = 0
       THEN frame' = [frame EXCEPT !.pc = "done"]
       ELSE frame' = [frame EXCEPT !.pc = "node"]
    /\ UNCHANGED <<graphVars, combVars, fnVars>>

\* `if currentNode.Parent == nil { break }; currentNode = currentNode.Parent`.
WalkParent ==
    /\ frame.pc = "parent"
    /\ IF tree[frame.currentNode].Parent = 0
       THEN frame' = [frame EXCEPT !.pc = "done"]
       ELSE frame' = [frame EXCEPT !.pc = "node",
                                 !.currentNode = tree[frame.currentNode].Parent]
    /\ UNCHANGED <<graphVars, combVars, fnVars>>

\* A run of the program is a run of Graph or, within it, of one walk.
LiveInit == Init \/ WalkInit

LiveNext ==
    \/ Next
    \/ WalkNode
    \/ WalkAttr
    \/ WalkVal
    \/ WalkRange
    \/ WalkRangeEnd
    \/ WalkParent

\* Where the program is: the statement it is at and its loop positions.
control == <<pc, i, frame>>

\* What a step of LiveNext does to control.  The program has one thread and
\* nothing it waits for: whenever it has a next statement, it executes it.
Advance ==
    \/ /\ pc = "graph"
       /\ pc' = IF Len(units) > 1 THEN "done" ELSE "css"
       /\ i' = IF Len(units) > 1 THEN i ELSE 1
       /\ frame' = frame
    \/ /\ pc \in {"css", "html"}
       /\ i <= Len(files)
       /\ pc' = pc
       /\ i' = i + 1
       /\ frame' = frame
    \/ /\ pc \in {"css", "html"}
       /\ i > Len(files)
       /\ pc' = IF pc = "css" THEN "html" ELSE "done"
       /\ i' = IF pc = "css" THEN 1 ELSE i
       /\ frame' = frame
    \/ WalkNode
    \/ WalkAttr
    \/ WalkVal
    \/ WalkRange
    \/ WalkRangeEnd
    \/ WalkParent

SpecLive == LiveInit /\ [][LiveNext]_vars /\ WF_control(Advance)

(***************************************************************************)
(* Functions called on their own: one call, one return.                    *)
(***************************************************************************)
Alphabet == {"a", "\n", eAcute}

\* findOffsets(fileText, line, column, token): every text, every position
\* up to one line and one column past what a text can have, every token.
FindOffsetsTexts == SeqsUpTo(Alphabet, MaxText)

FindOffsetsPositions == 1..(MaxText + 1)

FindOffsetsTokens == SeqsUpTo(Alphabet, MaxToken)

ChainAlphabet == {"a", ".", "#", " ", ">", "\n"}

h1Title == <<"h", "1", ".", "t", "i", "t", "l", "e">>

panelBody ==
    <<".", "p", "a", "n", "e", "l", " ", ">", " ", ".", "p", "a", "n", "e", "l", "-",
      "b", "o", "d", "y">>

\* lastSelector(s): every short chain, and the chains of the comments of the
\* source.
LastSelectorChains ==
    SeqsUpTo(ChainAlphabet, MaxChain) \union {h1Title, panelBody, <<"d", "i", "v">>}

VendorPrefixes ==
    {<<"-", "w", "e", "b", "k", "i", "t", "-">>, <<"-", "m", "o", "z", "-">>,
     <<"-", "m", "s", "-">>, <<"-", "o", "-">>}

\* mdnDefPath(cssProperty): every short property name, alone and after each
\* vendor prefix.
MdnProperties ==
    LET props == SeqsUpTo({"-", "o", "x"}, MaxProp)
    IN  props \union {v \o q : v \in VendorPrefixes, q \in props}

\* walk(n) of htmlRefs on an element with one id or class attribute: every
\* short attribute value, at an offset below and at an offset next to 2^16,
\* with every choice of the tokens that have a Definition.
ValAlphabet == {"a", "b", " ", eAcute}

ValStarts == {7, Half - 1}

DefinedTokens == {<<"a">>, <<"a", "b">>, <<eAcute>>}

\* The document: the element n below the document node.
OneElementDoc(key, val, valStart) ==
    <<Node(ElementNode, "p", <<Attribute(key, val, valStart)>>, 2, 0, 0, 0),
      Node(DocumentNode, "", <<>>, 0, 1, 0, 0)>>

\* The defs the walk resolves against: one per token of defined, with the
\* prefix of the attribute.
WalkDefs(key, defined) ==
    SelectSeq(<<VisibleDef(selPrefix(key) \o <<"a">>),
                VisibleDef(selPrefix(key) \o <<"a", "b">>),
                VisibleDef(selPrefix(key) \o <<eAcute>>)>>,
              LAMBDA d : SubSeq(d.Name, 2, Len(d.Name)) \in defined)

\* htmlRefs on a document that links a.css and b.css in some order, or one
\* of them, or none, and has <div id="a"><i id="a"></i><p class="x"></p></div>:
\* .x is the last token of "#a .x", "#a > .x", "#a + .x" and "#a ~ .x".
\* The link elements have neither id nor class and are not in the tree.
LinkOrders ==
    {<<>>, <<aCssPath>>, <<bCssPath>>, <<aCssPath, bCssPath>>, <<bCssPath, aCssPath>>}

LinkTokens(links) ==
    [k \in 1..Len(links) |->
        Token("StartTagToken", "link",
              <<relStylesheet(0), Attribute("href", links[k], 0)>>)]

LinkedDoc ==
    <<Node(DocumentNode, "", <<>>, 0, 2, 0, 0),
      Node(ElementNode, "div", <<Attribute("id", <<"a">>, 9)>>, 1, 3, 0, 0),
      Node(ElementNode, "i", <<Attribute("id", <<"a">>, 19)>>, 2, 0, 0, 4),
      Node(ElementNode, "p", <<Attribute("class", <<"x">>, 35)>>, 2, 0, 3, 0)>>

ChainNames == DefNames \ {TargetSel}

FileDef(file, name) ==
    Def(UnitName, selectorDefPath(file, name), name, ToSlash(file),
        Uint32(1), Uint32(1 + Len(name)), selectorKind(name))

\* out.Defs has the definitions of a file next to each other, and no
\* definition twice.
IsOutDefs(defs) ==
    /\ \A j, k \in 1..Len(defs) : defs[j] = defs[k] => j = k
    /\ \A j, k, l \in 1..Len(defs) :
          (j < k /\ k < l /\ defs[j].File = defs[l].File) => defs[k].File = defs[j].File

FnInit ==
    /\ GraphIdle
    /\ CombIdle
    /\ WalkIdle
    /\ \/ \E text \in FindOffsetsTexts, line \in FindOffsetsPositions,
             column \in FindOffsetsPositions, token \in FindOffsetsTokens :
             /\ fn = "findOffsets"
             /\ args = <<text, line, column, token>>
       \/ \E s \in LastSelectorChains :
             /\ fn = "lastSelector"
             /\ args = <<s>>
       \/ \E q \in MdnProperties :
             /\ fn = "mdnDefPath"
             /\ args = <<q>>
       \/ \E key \in {"id", "class"}, val \in SeqsUpTo(ValAlphabet, MaxVal),
             valStart \in ValStarts, defined \in SUBSET DefinedTokens :
             /\ fn = "htmlRefs.walk"
             /\ args = <<key, val, valStart, WalkDefs(key, defined)>>
       \/ \E links \in LinkOrders,
             selectorDefs \in SeqsUpTo({FileDef(f, name) : f \in {aCssPath, bCssPath},
                                                          name \in ChainNames}, MaxDefs) :
             /\ IsOutDefs(selectorDefs)
             /\ fn = "htmlRefs"
             /\ args = <<links, selectorDefs>>
    /\ returned = FALSE
    /\ ret = <<>>

FindOffsets ==
    /\ fn = "findOffsets"
    /\ ~returned
    /\ returned' = TRUE
    /\ ret' = findOffsets(args[1], args[2], args[3], args[4])
    /\ UNCHANGED <<fn, args, graphVars, combVars, walkVars>>

LastSelector ==
    /\ fn = "lastSelector"
    /\ ~returned
    /\ returned' = TRUE
    /\ ret' = lastSelector(args[1])
    /\ UNCHANGED <<fn, args, graphVars, combVars, walkVars>>

MdnDefPath ==
    /\ fn = "mdnDefPath"
    /\ ~returned
    /\ returned' = TRUE
    /\ ret' = mdnDefPath(args[1])
    /\ UNCHANGED <<fn, args, graphVars, combVars, walkVars>>

HtmlRefsWalk ==
    /\ fn = "htmlRefs.walk"
    /\ ~returned
    /\ returned' = TRUE
    /\ ret' = walk(UnitName, iHtmlPath, args[4],
                   OneElementDoc(args[1], args[2], args[3]), 1, <<>>)
    /\ UNCHANGED <<fn, args, graphVars, combVars, walkVars>>

HtmlRefs ==
    /\ fn = "htmlRefs"
    /\ ~returned
    /\ returned' = TRUE
    /\ ret' = htmlRefs(UnitName, LinkTokens(args[1]), LinkedDoc, iHtmlPath, args[2])
    /\ UNCHANGED <<fn, args, graphVars, combVars, walkVars>>

FnNext == FindOffsets \/ LastSelector \/ MdnDefPath \/ HtmlRefsWalk \/ HtmlRefs

SpecFn == FnInit /\ [][FnNext]_vars

(***************************************************************************)
(* What the combinator engine is expected to return, stated on the tree    *)
(* and not by the loops of combinators.go.                                 *)
(***************************************************************************)
Range(s) == {s[k] : k \in 1..Len(s)}

Count(s, x) == Cardinality({k \in 1..Len(s) : s[k] = x})

IsIdOrClass(a) == a.Key = "id" \/ a.Key = "class"

\* The id/class tokens of an attribute list, "#" or "." in front, in order.
RECURSIVE IdClassTokens(_, _)
IdClassTokens(attrs, k) ==
    IF k > Len(attrs)
    THEN <<>>
    ELSE LET vals == Split(attrs[k].Val, " ")
         IN  (IF IsIdOrClass(attrs[k])
              THEN [j \in 1..Len(vals) |->
                       (IF attrs[k].Key = "id" THEN <<"#">> ELSE <<".">>) \o vals[j]]
              ELSE <<>>)
             \o IdClassTokens(attrs, k + 1)

\* The nodes above n, nearest first.
RECURSIVE ParentChain(_, _)
ParentChain(doc, n) ==
    IF doc[n].Parent = 0
    THEN <<>>
    ELSE <<doc[n].Parent>> \o ParentChain(doc, doc[n].Parent)

\* The token lists of the element ancestors of the target, nearest first.
AncestorTokens ==
    LET chain == SelectSeq(ParentChain(tree, target.node),
                           LAMBDA n : tree[n].Type = ElementNode)
    IN  [k \in 1..Len(chain) |-> IdClassTokens(tree[chain[k]].Attr, 1)]

MaxTokens(toks) ==
    IF toks = <<>> THEN 0
    ELSE CHOOSE n \in {Len(toks[k]) : k \in 1..Len(toks)} :
             \A k \in 1..Len(toks) : Len(toks[k]) <= n

RECURSIVE Product(_, _)
Product(toks, k) ==
    IF k = 0 THEN 1 ELSE (1 + Len(toks[k])) * Product(toks, k - 1)

\* c[k] = 0: ancestor k is not chosen; c[k] = j > 0: its j-th token is.
DescChoices(toks) ==
    {c \in [1..Len(toks) -> 0..MaxTokens(toks)] :
        /\ \A k \in 1..Len(toks) : c[k] <= Len(toks[k])
        /\ \E k \in 1..Len(toks) : c[k] > 0}

RECURSIVE DescChain(_, _, _, _)
DescChain(toks, c, k, sel) ==
    IF k = 0 THEN sel
    ELSE (IF c[k] = 0 THEN <<>> ELSE toks[k][c[k]] \o <<" ">>)
         \o DescChain(toks, c, k - 1, sel)

\* C4: DescCombinatorSelectors returns exactly the strings "t_k ... t_1 sel",
\* one per choice of a non-empty subset of the element ancestors and of one
\* id/class token of each chosen ancestor (outermost first, single spaces):
\* (1+n1)*...*(1+nm) - 1 entries, none with two tokens of one ancestor, none
\* with a token of the target node itself.
C4_DescExactlySubsetChains ==
    op = "desc" =>
        LET toks    == AncestorTokens
            choices == DescChoices(toks)
            str(c)  == DescChain(toks, c, Len(toks), target.sel)
        IN  /\ Len(result) = Product(toks, Len(toks)) - 1
            /\ \A c \in choices :
                   Count(result, str(c))
                       = Cardinality({e \in choices : str(e) = str(c)})
            /\ \A k \in 1..Len(result) : \E c \in choices : result[k] = str(c)

C4_Witness ==
    /\ op = "desc"
    /\ Len(AncestorTokens) = 2
    /\ Len(AncestorTokens[1]) = 3
    /\ Len(AncestorTokens[2]) = 1
    /\ Len(result) = 7

\* C5 (as claimed): the 4-level chain of TestDescCombinatorSelectors gives
\* exactly 34 descendant strings.
C5_Original34 ==
    (op = "desc" /\ tree = DescTestDoc /\ target.sel = ContainerInnerSel)
        => Len(result) = 34

\* C5 (amended): the 4-level chain of TestDescCombinatorSelectors gives exactly
\* 35 descendant strings, all different: (1+5)*(1+2)*(1+1) - 1.
C5_DescTest35 ==
    (op = "desc" /\ tree = DescTestDoc /\ target.sel = ContainerInnerSel)
        => /\ Len(result) = 35
           /\ Cardinality(Range(result)) = 35
           /\ <<"#", "a", "p", "p", " ">> \o ContainerInnerSel \in Range(result)

C5_Witness ==
    op = "desc" /\ tree = DescTestDoc /\ target.sel = ContainerInnerSel

\* The token lists of the nodes directly above the target, nearest first, up
\* to (not including) the first node that is no element or has no token.
RECURSIVE ChildLinkTokens(_, _)
ChildLinkTokens(doc, chain) ==
    IF chain = <<>> THEN <<>>
    ELSE LET n    == Head(chain)
             toks == IdClassTokens(doc[n].Attr, 1)
         IN  IF doc[n].Type # ElementNode \/ toks = <<>>
             THEN <<>>
             ELSE <<toks>> \o ChildLinkTokens(doc, Tail(chain))

ChildChoices(toks) ==
    UNION { {c \in [1..k -> 1..MaxTokens(toks)] :
                 \A j \in 1..k : c[j] <= Len(toks[j])} : k \in 1..Len(toks) }

RECURSIVE ChildChain(_, _, _, _)
ChildChain(toks, c, k, sel) ==
    IF k = 0 THEN sel
    ELSE toks[k][c[k]] \o <<" ", ">", " ">> \o ChildChain(toks, c, k - 1, sel)

\* C6: ChildCombinatorSelectors returns exactly the strings
\* "t_k > ... > t_1 > sel" with t_j a token of the j-th nearest ancestor and
\* the k ancestors consecutive from the target's parent; an ancestor without
\* id/class tokens ends the chain; the test's 3-level chain gives 9 strings.
C6_ChildExactlyParentLinks ==
    op = "child" =>
        LET toks    == ChildLinkTokens(tree, ParentChain(tree, target.node))
            choices == ChildChoices(toks)
            str(c)  == ChildChain(toks, c, Len(c), target.sel)
        IN  /\ Len(result) = Cardinality(choices)
            /\ \A c \in choices :
                   Count(result, str(c))
                       = Cardinality({e \in choices : str(e) = str(c)})
            /\ (tree = ChildTestDoc => Len(result) = 9)

C6_Witness ==
    /\ op = "child"
    /\ tree = ChildTestDoc
    /\ Len(result) = 9

C6_WitnessChainEnds ==
    /\ op = "child"
    /\ Len(AncestorTokens) = 2
    /\ AncestorTokens[1] = <<>>
    /\ AncestorTokens[2] # <<>>
    /\ result = <<>>

\* C7: when the immediate previous sibling carries only id and class
\* attributes, AdjacentCombinatorSelectors returns one "t + sel" and
\* GeneralCombinatorSelectors one "t ~ sel" per token t of that sibling, in
\* order, whatever the siblings before it carry; both return the empty list
\* when there is no previous sibling.
C7_SiblingsImmediatePreviousOnly ==
    op \in {"adjacent", "general"} =>
        LET prev == tree[target.node].PrevSibling
            comb == IF op = "adjacent" THEN <<" ", "+", " ">> ELSE <<" ", "~", " ">>
        IN  IF prev = 0
            THEN result = <<>>
            ELSE (\A k \in 1..Len(tree[prev].Attr) : IsIdOrClass(tree[prev].Attr[k]))
                 => LET toks == IdClassTokens(tree[prev].Attr, 1)
                    IN  result = [k \in 1..Len(toks) |-> toks[k] \o comb \o target.sel]

C7_Witness ==
    /\ op = "general"
    /\ tree[target.node].PrevSibling # 0
    /\ LET prev == tree[target.node].PrevSibling
       IN  /\ \A k \in 1..Len(tree[prev].Attr) : IsIdOrClass(tree[prev].Attr[k])
           /\ tree[prev].PrevSibling # 0
           /\ IdClassTokens(tree[tree[prev].PrevSibling].Attr, 1) # <<>>
    /\ Len(result) = 3

\* The document without the attributes whose key is neither id nor class.
StripOtherAttrs(doc) ==
    [n \in DOMAIN doc |->
        [doc[n] EXCEPT !.Attr = SelectSeq(@, IsIdOrClass)]]

\* C8: in all four combinator functions an attribute whose key is neither id
\* nor class contributes nothing: the result is the one obtained on the same
\* document with those attributes removed.
C8_OnlyIdAndClassContribute ==
    /\ op = "desc" =>
           result = DescCombinatorSelectors(StripOtherAttrs(tree), target)
    /\ op = "child" =>
           result = ChildCombinatorSelectors(StripOtherAttrs(tree), target)
    /\ op = "adjacent" =>
           result = AdjacentCombinatorSelectors(StripOtherAttrs(tree), target)
    /\ op = "general" =>
           result = GeneralCombinatorSelectors(StripOtherAttrs(tree), target)

\* The candidate lists of the four forms in the order SelectorDef builds them.
FormCandidates ==
    <<DescCombinatorSelectors(tree, target),
      ChildCombinatorSelectors(tree, target),
      AdjacentCombinatorSelectors(tree, target),
      GeneralCombinatorSelectors(tree, target)>>

\* The highest-priority form (1 = descendant .. 4 = general sibling) one of
\* whose candidates (forms[f]) is the name of visible[d]; 5 when there is none.
BestForm(forms, d) ==
    LET matched == {f \in 1..4 : \E k \in 1..Len(forms[f]) : forms[f][k] = visible[d].Name}
    IN  IF matched = {} THEN 5
        ELSE CHOOSE f \in matched : \A g \in matched : f <= g

DirectMatches == {d \in 1..Len(visible) : visible[d].Name = target.sel}

\* C9: when some visible Definition's name equals prefix+token, SelectorDef
\* returns the first such Definition, whatever the combinator candidates
\* match.
C9_DirectMatchFirst ==
    (op = "resolve" /\ DirectMatches # {}) =>
        /\ result \in DirectMatches
        /\ \A d \in DirectMatches : result <= d

C9_Witness ==
    /\ op = "resolve"
    /\ Len(visible) = 2
    /\ DirectMatches = {2}
    /\ result = 2
    /\ BestForm(FormCandidates, 1) = 1

\* C10 (as claimed): without a direct match, the Definition returned is one
\* matched by the highest-priority form that matches any visible Definition.
C10_OriginalPriorityOrder ==
    (op = "resolve" /\ DirectMatches = {}) =>
        LET forms == FormCandidates
            best  == [d \in 1..Len(visible) |-> BestForm(forms, d)]
        IN  \A d1 \in 1..Len(visible) : \A d2 \in 1..Len(visible) :
                (best[d1] < best[d2] /\ best[d2] <= 4) => result # d2

\* C10 (amended): without a direct match, of a Definition matched by a
\* higher-priority form and another matched only by lower-priority forms the
\* one listed first in the visible Definition set wins: the result is a
\* matching Definition listed no later than either, so the higher-priority
\* one is returned only when it precedes the other.
C10_EarlierListedWins ==
    (op = "resolve" /\ DirectMatches = {}) =>
        LET forms == FormCandidates
            best  == [d \in 1..Len(visible) |-> BestForm(forms, d)]
        IN  \A d1 \in 1..Len(visible) : \A d2 \in 1..Len(visible) :
                (best[d1] < best[d2] /\ best[d2] <= 4) =>
                    /\ result # 0
                    /\ best[result] <= 4
                    /\ result <= d1
                    /\ result <= d2

C10_Witness ==
    /\ op = "resolve"
    /\ DirectMatches = {}
    /\ Len(visible) = 2
    /\ result = 1
    /\ BestForm(FormCandidates, 1) = 3
    /\ BestForm(FormCandidates, 2) = 1

(***************************************************************************)
(* What doGraph is expected to produce, stated on the text of the files.   *)
(***************************************************************************)
\* The non-empty selectors of a stylesheet in source order, each with the
\* offset of its first character in the text of the file, -1 when the text
\* has no character at the line and column reported for the selector.
SelectorOccurrences(f) ==
    CASE f = aCssPath ->
           << <<(<<".", "a">>), 0>>, <<(<<".", "a">>), 8>>, <<(<<"#", "b">>), 11>>,
              <<(<<"#", "b", " ", ">", " ", ".", "c">>), 16>> >>
      [] f = bCssPath ->
           << <<(<<".", "c">>), 0>>, <<(<<".", "a">>), 11>> >>
      [] f = pCssPath ->
           << <<(<<"p">>), 0>>, <<(<<"#", "p">>), -1>> >>
      [] f = cCssPath ->
           << <<(<<".", "c", "s", "s", ".", "x">>), 0>> >>
      [] f = cCssCssPath ->
           << <<(<<".", "x">>), 0>> >>
      [] OTHER -> <<>>

\* The offset of the first occurrence of selector name in stylesheet f.
FirstOffset(f, name) ==
    LET occ == SelectorOccurrences(f)
        ks  == {k \in 1..Len(occ) : occ[k][1] = name}
    IN  occ[CHOOSE k \in ks : \A j \in ks : k <= j][2]

\* The (file, name) pairs of the selectors of the stylesheets of the unit.
AllSelectors ==
    UNION {{<<f, SelectorOccurrences(f)[k][1]>> :
               k \in 1..Len(SelectorOccurrences(f))} : f \in Range(files)}

\* The files the stylesheet links of an HTML document name, relative to the
\* directory of the unit.
LinkedStylesheets(f) ==
    CASE f = iHtmlPath -> {aCssPath}
      [] f = kHtmPath  -> {bCssPath, <<"d", "/">> \o aCssPath}
      [] f = nHtmlPath -> {bCssPath}
      [] OTHER         -> {}

\* The id/class tokens of an HTML document that select a Definition of a
\* stylesheet it links, when the stylesheets of the unit are all known:
\* i.html has #b, .c (by "#b > .c") and .a of a.css, d/K.HTM has .a of b.css,
\* n.html has .c and .a of b.css.
ResolvableTokens(f) ==
    CASE f = iHtmlPath -> IF aCssPath \in Range(files) THEN 3 ELSE 0
      [] f = kHtmPath  -> IF bCssPath \in Range(files) THEN 1 ELSE 0
      [] f = nHtmlPath -> IF bCssPath \in Range(files) THEN 2 ELSE 0
      [] OTHER         -> 0

DefSiteRefs == SelectSeq(outRefs, LAMBDA r : r.Def)

HtmlUsageRefs == SelectSeq(outRefs, LAMBDA r : r.DefUnitType = "basic-css" /\ ~r.Def)

HtmlUsageRefsOf(f) == SelectSeq(HtmlUsageRefs, LAMBDA r : r.File = f)

\* C1: at every point of doGraph no two Definitions have the same (name,
\* path) pair, each Definition is the one of the first occurrence of its
\* selector in its file, and the definition-site References are exactly one
\* per Definition, in the same order: a repeated selector or a stylesheet
\* listed again adds neither.
C1_DefsUniqueFirstKept ==
    /\ \A j, k \in 1..Len(outDefs) :
          (/\ outDefs[j].Name = outDefs[k].Name
           /\ outDefs[j].DefKey.Path = outDefs[k].DefKey.Path) => j = k
    /\ \A k \in 1..Len(outDefs) :
          LET first == FirstOffset(outDefs[k].File, outDefs[k].Name)
          IN  outDefs[k].DefStart = Uint32(IF first = 0 THEN 1 ELSE first)
    /\ Len(DefSiteRefs) = Len(outDefs)
    /\ \A k \in 1..Len(outDefs) :
          /\ DefSiteRefs[k].DefPath = outDefs[k].DefKey.Path
          /\ DefSiteRefs[k].Start = outDefs[k].DefStart
          /\ DefSiteRefs[k].End = outDefs[k].DefEnd

\* a.css, which has the selector .a twice, was listed twice and doGraph has
\* returned its three Definitions.
C1_Witness ==
    /\ pc = "done"
    /\ Count(files, aCssPath) = 2
    /\ Len(outDefs) = 3
    /\ Len(DefSiteRefs) = 3

\* C2: every Reference made for an HTML document names the path of a
\* Definition whose file is one of the files the stylesheet links of that
\* document name; a document none of whose links names the file of a
\* Definition has no Reference.
C2_RefsOnlyToLinkedStylesheets ==
    /\ \A k \in 1..Len(HtmlUsageRefs) :
          \E d \in 1..Len(outDefs) :
              /\ outDefs[d].DefKey.Path = HtmlUsageRefs[k].DefPath
              /\ outDefs[d].File \in LinkedStylesheets(HtmlUsageRefs[k].File)
    /\ \A f \in Range(files) :
          (\A d \in 1..Len(outDefs) : outDefs[d].File \notin LinkedStylesheets(f))
              => HtmlUsageRefsOf(f) = <<>>

\* d/K.HTM (id "b", class "a") links ../b.css and d/a.css; a.css and b.css are
\* in the unit: its only Reference is to .a of b.css, though a.css defines
\* both #b and .a.
C2_Witness ==
    /\ pc = "done"
    /\ files = <<aCssPath, bCssPath, kHtmPath>>
    /\ Len(HtmlUsageRefsOf(kHtmPath)) = 1
    /\ HtmlUsageRefsOf(kHtmPath)[1].DefPath = bCssPath \o <<".", "a">>

\* j.html (class "a") has no stylesheet link, a.css defines .a, and doGraph
\* has returned no Reference for j.html.
C2_WitnessNoLink ==
    /\ pc = "done"
    /\ jHtmlPath \in Range(files)
    /\ \E d \in 1..Len(outDefs) : outDefs[d].Name = <<".", "a">>
    /\ HtmlUsageRefsOf(jHtmlPath) = <<>>

\* C3: while doGraph is in its first loop no Reference of an HTML document
\* exists; from the end of the first loop on the Definitions are those of
\* all the stylesheets of the unit, wherever they are listed, and no step
\* changes them; and when doGraph returns every HTML document has, for each
\* time it is listed, one Reference per token that selects a Definition of
\* a stylesheet it links, whether the stylesheet is listed before or after.
C3_TwoPhases ==
    /\ [](pc = "css" => HtmlUsageRefs = <<>>)
    /\ [](pc \in {"html", "done"} =>
             {<<outDefs[k].File, outDefs[k].Name>> : k \in 1..Len(outDefs)}
                 = AllSelectors)
    /\ [](pc = "done" =>
             \A f \in Range(files) :
                 Len(HtmlUsageRefsOf(f)) = Count(files, f) * ResolvableTokens(f))
    /\ [][pc = "html" => outDefs' = outDefs]_vars

\* i.html is listed before a.css, the stylesheet it links, and doGraph has
\* returned its three References to Definitions of a.css.
C3_Witness ==
    /\ pc = "done"
    /\ files = <<iHtmlPath, aCssPath>>
    /\ Len(HtmlUsageRefsOf(iHtmlPath)) = 3
    /\ \A k \in 1..3 : HasPrefix(HtmlUsageRefsOf(iHtmlPath)[k].DefPath, aCssPath)

\* The id/class tokens of an HTML document in document order: the node that
\* has the token (its index in the tree of the document), the attribute, the
\* token and the offset of its first character in the text of the file.
DocTokens(f) ==
    CASE f = iHtmlPath ->
           <<[node |-> 6, key |-> "id", val |-> <<"b">>, start |-> 70],
             [node |-> 7, key |-> "class", val |-> <<"c">>, start |-> 83],
             [node |-> 7, key |-> "class", val |-> <<"a">>, start |-> 85]>>
      [] f = jHtmlPath ->
           <<[node |-> 5, key |-> "class", val |-> <<"a">>, start |-> 12]>>
      [] f = kHtmPath ->
           <<[node |-> 7, key |-> "id", val |-> <<"b">>, start |-> 82],
             [node |-> 7, key |-> "class", val |-> <<"a">>, start |-> 92]>>
      [] f = nHtmlPath ->
           <<[node |-> 6, key |-> "class", val |-> <<"z">>, start |-> 46],
             [node |-> 6, key |-> "class", val |-> <<"c">>, start |-> 48],
             [node |-> 7, key |-> "id", val |-> <<"q">>, start |-> 58],
             [node |-> 7, key |-> "class", val |-> <<"a">>, start |-> 68]>>
      [] OTHER -> <<>>

\* The selector of a token and its descendant, child, adjacent and general
\* candidates in the tree of document f.
TokenSelectors(f, tk) ==
    LET sel == (IF tk.key = "id" THEN <<"#">> ELSE <<".">>) \o tk.val
    IN  {sel} \union Range(combSelectors(htmlParse(ReadFile(f).data),
                                         selNode(sel, tk.node)))

\* The Definitions of the stylesheets document f links whose name is the
\* selector of token tk or one of its candidates.
TokenDefs(f, tk) ==
    {d \in 1..Len(outDefs) :
        /\ outDefs[d].File \in LinkedStylesheets(f)
        /\ outDefs[d].Name \in TokenSelectors(f, tk)}

\* C11: when doGraph returns, a token of an HTML document has a Reference
\* (one for each time the document is listed, from the offset of the token
\* to the offset of its end, to a Definition found for it) if and only if
\* a Definition of a stylesheet the document links is named as the selector
\* of the token or one of its four kinds of candidates; the document has no
\* other Reference, and a token without Reference does not keep the tokens
\* and elements after it from getting theirs.
C11_RefIffSomeVisibleDefMatches ==
    pc = "done" =>
        \A f \in Range(files) :
            LET toks  == DocTokens(f)
                refs  == HtmlUsageRefsOf(f)
                of(k) == {r \in 1..Len(refs) :
                             /\ refs[r].Start = Uint32(toks[k].start)
                             /\ refs[r].End = Uint32(toks[k].start + Len(toks[k].val))}
            IN  /\ \A k \in 1..Len(toks) :
                      IF TokenDefs(f, toks[k]) = {}
                      THEN of(k) = {}
                      ELSE /\ Cardinality(of(k)) = Count(files, f)
                           /\ \A r \in of(k) :
                                 \E d \in TokenDefs(f, toks[k]) :
                                     refs[r].DefPath = outDefs[d].DefKey.Path
                /\ \A r \in 1..Len(refs) : \E k \in 1..Len(toks) : r \in of(k)

\* n.html (class "z c", then id "q" class "a") links b.css, which defines .c
\* and .a: .z and #q have no Reference, .c after .z and .a after #q have one.
C11_Witness ==
    /\ pc = "done"
    /\ files = <<bCssPath, nHtmlPath>>
    /\ Len(HtmlUsageRefsOf(nHtmlPath)) = 2
    /\ HtmlUsageRefsOf(nHtmlPath)[1].Start = Uint32(48)
    /\ HtmlUsageRefsOf(nHtmlPath)[1].DefPath = bCssPath \o <<".", "c">>
    /\ HtmlUsageRefsOf(nHtmlPath)[2].Start = Uint32(68)
    /\ HtmlUsageRefsOf(nHtmlPath)[2].DefPath = bCssPath \o <<".", "a">>

\* C12: when more than one unit is supplied, Graph returns the error
\* "unexpected multiple units" and a nil output: doGraph is never entered,
\* no file of any unit is read, there is no Definition and no Reference.
C12_MultipleUnitsRejected ==
    Len(units) > 1 =>
        /\ pc \in {"graph", "done"}
        /\ pc = "done" => err = "unexpected multiple units"
        /\ files = <<>>
        /\ i = 0
        /\ outDefs = <<>>
        /\ outRefs = <<>>

\* Graph has returned for two units, the first of which has a.css and
\* i.html, which links it.
C12_Witness ==
    /\ pc = "done"
    /\ Len(units) = 2
    /\ units[1] = <<aCssPath, iHtmlPath>>
    /\ err = "unexpected multiple units"

(***************************************************************************)
(* What findOffsets is expected to return, stated on the text.             *)
(***************************************************************************)
\* The 1-based line and column of the k-th character of text.
LineOf(text, k) == 1 + Cardinality({j \in 1..(k - 1) : text[j] = "\n"})

ColumnOf(text, k) ==
    LET nls == {j \in 1..(k - 1) : text[j] = "\n"}
    IN  IF nls = {} THEN k ELSE k - (CHOOSE j \in nls : \A m \in nls : m <= j)

\* The characters of text that sit at (line, column).
CharsAt(text, line, column) ==
    {k \in 1..Len(text) : LineOf(text, k) = line /\ ColumnOf(text, k) = column}

\* token occurs in text from its k-th character on.
OccursAt(text, k, token) ==
    /\ k + Len(token) - 1 <= Len(text)
    /\ SubSeq(text, k, k + Len(token) - 1) = token

\* C13: when token occurs in the text from the character at (line, column)
\* on, findOffsets returns (start, end) with end = start + len(token) and
\* the bytes start..end-1 of the text are the bytes of the token.
C13_OffsetsRoundTrip ==
    (fn = "findOffsets" /\ returned) =>
        \A k \in CharsAt(args[1], args[2], args[3]) :
            OccursAt(args[1], k, args[4]) =>
                /\ ret[2] = ret[1] + ByteLen(args[4])
                /\ ret[1] >= 0
                /\ SubSeq(Bytes(args[1]), ret[1] + 1, ret[2]) = Bytes(args[4])

\* The token "a" followed by a line break is found at line 2, column 2, after
\* a two-byte character on line 2: bytes 3..4 of the text.
C13_Witness ==
    /\ fn = "findOffsets"
    /\ returned
    /\ args = <<(<<"\n", eAcute, "a">>), 2, 2, (<<"a">>)>>
    /\ ret = <<3, 4>>

\* C14: findOffsets returns (-1, -1) exactly when no character of the text
\* sits at (line, column); otherwise its start is the index of a byte of the
\* text.
C14_SentinelIffNoCharacterThere ==
    (fn = "findOffsets" /\ returned) =>
        IF CharsAt(args[1], args[2], args[3]) = {}
        THEN ret = <<-1, -1>>
        ELSE 0 <= ret[1] /\ ret[1] < ByteLen(args[1])

\* The position just after the last character of a one-line text, and a
\* position in the empty text, have been looked up and gave (-1, -1).
C14_Witness ==
    /\ fn = "findOffsets"
    /\ returned
    /\ args[1] = <<"a", "a">>
    /\ args[2] = 1
    /\ args[3] = 3
    /\ ret = <<-1, -1>>

C14_WitnessEmptyText ==
    /\ fn = "findOffsets"
    /\ returned
    /\ args[1] = <<>>
    /\ args[2] = 1
    /\ args[3] = 1
    /\ ret = <<-1, -1>>

(***************************************************************************)
(* What a run of doGraph on a list of files produces, for the comparison   *)
(* of runs.                                                                *)
(***************************************************************************)
RECURSIVE firstLoop(_, _, _)
firstLoop(out, fs, k) ==
    IF k > Len(fs) THEN out ELSE firstLoop(cssFile(out, fs[k]), fs, k + 1)

RECURSIVE secondLoop(_, _, _)
secondLoop(out, fs, k) ==
    IF k > Len(fs) THEN out
    ELSE secondLoop([Defs |-> out.Defs,
                     Refs |-> out.Refs \o htmlFile(out.Defs, fs[k])], fs, k + 1)

doGraphOutput(fs) == secondLoop(firstLoop([Defs |-> <<>>, Refs |-> <<>>], fs, 1), fs, 1)

\* 4294967295 = 65535 * 65536 + 65535, which is -1 modulo 2^32.
MinusOneUint32 == [hi |-> Half - 1, lo |-> Half - 1]

\* C15: p.css has a selector (#p) and a declaration (w) at a position the
\* text has no character at.  When doGraph returns for a unit with p.css
\* there is no error, #p has its Definition and its definition-site
\* Reference and w its documentation Reference, each with start and end
\* 4294967295, and the records of the other files are those of the run
\* without p.css.
C15_SentinelPropagated ==
    (pc = "done" /\ pCssPath \in Range(files)) =>
        /\ err = "nil"
        /\ \E d \in 1..Len(outDefs) :
              /\ outDefs[d].DefKey.Path = pCssPath \o <<"#", "p">>
              /\ outDefs[d].DefStart = MinusOneUint32
              /\ outDefs[d].DefEnd = MinusOneUint32
        /\ \E r \in 1..Len(outRefs) :
              /\ outRefs[r].Def
              /\ outRefs[r].DefPath = pCssPath \o <<"#", "p">>
              /\ outRefs[r].Start = MinusOneUint32
              /\ outRefs[r].End = MinusOneUint32
        /\ \E r \in 1..Len(outRefs) :
              outRefs[r].DefUnit = "MDN" /\ outRefs[r].File = pCssPath
        /\ \A r \in 1..Len(outRefs) :
              (outRefs[r].DefUnit = "MDN" /\ outRefs[r].File = pCssPath) =>
                  /\ outRefs[r].DefPath = mdnCSSReferenceURL \o <<"w">>
                  /\ outRefs[r].Start = MinusOneUint32
                  /\ outRefs[r].End = MinusOneUint32
        /\ LET rest == doGraphOutput(SelectSeq(files, LAMBDA f : f # pCssPath))
           IN  /\ SelectSeq(outDefs, LAMBDA d : d.File # pCssPath) = rest.Defs
               /\ SelectSeq(outRefs, LAMBDA r : r.File # pCssPath) = rest.Refs

\* doGraph has returned for p.css, a.css and i.html: five Definitions, three
\* of a.css, and the three References of i.html.
C15_Witness ==
    /\ pc = "done"
    /\ files = <<pCssPath, aCssPath, iHtmlPath>>
    /\ err = "nil"
    /\ Len(outDefs) = 5
    /\ outDefs[2].DefStart = MinusOneUint32
    /\ Len(HtmlUsageRefsOf(iHtmlPath)) = 3

\* a < b on uint32.
Less32(a, b) == a.hi < b.hi \/ (a.hi = b.hi /\ a.lo < b.lo)

\* C16: every Definition whose selector was found in the text of its file
\* has DefEnd > DefStart, also when the selector is at offset 0 and DefStart
\* is 1.
C16_DefEndAfterDefStart ==
    \A d \in 1..Len(outDefs) :
        FirstOffset(outDefs[d].File, outDefs[d].Name) # -1 =>
            Less32(outDefs[d].DefStart, outDefs[d].DefEnd)

(***************************************************************************)
(* What lastSelector is expected to return.                                *)
(***************************************************************************)
\* C17: lastSelector returns nil or a selector that begins with "#" or ".",
\* has at least one more character, has no white space and no combinator
\* character, and ends the last component of the chain.
C17_RightmostIdClassToken ==
    (fn = "lastSelector" /\ returned /\ ret[1] = "sel") =>
        /\ ret[2][1] \in {"#", "."}
        /\ Len(ret[2]) >= 2
        /\ \A k \in 1..Len(ret[2]) : ~IsSpace(ret[2][k]) /\ ~selSplitFn(ret[2][k])
        /\ LET selectors == FieldsFunc(args[1], 1, <<>>)
           IN  HasSuffix(TrimSpace(selectors[Len(selectors)]), ret[2])

\* C18: lastSelector returns a selector or nil for every chain that is not
\* empty.
C18_LastSelectorNeverFails ==
    (fn = "lastSelector" /\ returned /\ args[1] # <<>>) => ret[1] \in {"sel", "nil"}

\* A chain whose last component is a tag after a class has been given to
\* lastSelector.
LastSelectorClassThenTag ==
    /\ fn = "lastSelector"
    /\ returned
    /\ args[1] = <<".", "a", " ", "a">>
    /\ ret = <<"sel", (<<".", "a", " ", "a">>)>>

\* "h1.title" gives ".title", ".panel > .panel-body" gives ".panel-body" and
\* "div" gives nil.
LastSelectorExamples ==
    (fn = "lastSelector" /\ returned) =>
        /\ args[1] = h1Title => ret = <<"sel", (<<".", "t", "i", "t", "l", "e">>)>>
        /\ args[1] = panelBody =>
               ret = <<"sel", SubSeq(panelBody, 10, Len(panelBody))>>
        /\ args[1] = <<"d", "i", "v">> => ret = <<"nil">>

\* C19: every Definition has a name that begins with "#" or ".", a kind
\* "id" or "class", and is what lastSelector gives for a selector chain of
\* its file; a chain for which lastSelector gives nil has no Definition.
C19_DefsOnlyForNormalizedSelectors ==
    \A d \in 1..Len(outDefs) :
        /\ outDefs[d].Name[1] \in {"#", "."}
        /\ outDefs[d].Data.Kind \in {"id", "class"}
        /\ \E k \in 1..Len(SelectorOccurrences(outDefs[d].File)) :
              lastSelector(SelectorOccurrences(outDefs[d].File)[k][1])
                  = <<"sel", outDefs[d].Name>>

(***************************************************************************)
(* What mdnDefPath is expected to return.                                  *)
(***************************************************************************)
StartsWithVendorPrefix(q) == \E v \in VendorPrefixes : HasPrefix(q, v)

\* C20: for a property name q that starts with no vendor prefix,
\* mdnDefPath(q) is the documentation URL followed by q, and for each vendor
\* prefix v, mdnDefPath(v + q) is the same path.
C20_VendorPrefixFolding ==
    (fn = "mdnDefPath" /\ returned) =>
        /\ ~StartsWithVendorPrefix(args[1]) => ret = mdnCSSReferenceURL \o args[1]
        /\ \A v \in VendorPrefixes :
              LET q == SubSeq(args[1], Len(v) + 1, Len(args[1]))
              IN  (HasPrefix(args[1], v) /\ ~StartsWithVendorPrefix(q)) =>
                      /\ ret = mdnCSSReferenceURL \o q
                      /\ ret = mdnDefPath(q)

\* mdnDefPath("-webkit-x") has returned the path of "x".
C20_Witness ==
    /\ fn = "mdnDefPath"
    /\ returned
    /\ args[1] = <<"-", "w", "e", "b", "k", "i", "t", "-", "x">>
    /\ ret = mdnCSSReferenceURL \o <<"x">>

(***************************************************************************)
(* Skipped files.                                                          *)
(***************************************************************************)
\* The files of the unit without m.css, which cannot be read, and e.css,
\* which does not parse.
RemainingFiles == SelectSeq(files, LAMBDA f : f \notin {mCssPath, eCssPath})

\* C21: when Graph returns for a single unit there is no error, and the
\* Definitions and the References are those doGraph produces for the files
\* of the unit without the file that cannot be read (m.css) and the
\* stylesheet that does not parse (e.css), wherever these are listed.
C21_UnreadableAndUnparsableSkipped ==
    (pc = "done" /\ Len(units) = 1) =>
        /\ err = "nil"
        /\ outDefs = doGraphOutput(RemainingFiles).Defs
        /\ outRefs = doGraphOutput(RemainingFiles).Refs

\* a.css, then e.css or m.css, then i.html: doGraph has returned the three
\* Definitions of a.css and the three References of i.html.
C21_Witness ==
    /\ pc = "done"
    /\ err = "nil"
    /\ Len(files) = 3
    /\ files[1] = aCssPath
    /\ files[2] = eCssPath
    /\ files[3] = iHtmlPath
    /\ Len(outDefs) = 3
    /\ Len(HtmlUsageRefsOf(iHtmlPath)) = 3

\* The same with m.css, the file that cannot be read, listed first.
C21_WitnessUnreadable ==
    /\ pc = "done"
    /\ err = "nil"
    /\ files = <<mCssPath, aCssPath, iHtmlPath>>
    /\ Len(outDefs) = 3
    /\ Len(HtmlUsageRefsOf(iHtmlPath)) = 3

(***************************************************************************)
(* Definition-site References.                                             *)
(***************************************************************************)
\* Reference k of out.Refs is at the site of Definition d of out.Defs.
AtDefSite(k, d) ==
    /\ outRefs[k].DefUnitType = outDefs[d].DefKey.UnitType
    /\ outRefs[k].DefUnit = outDefs[d].DefKey.Unit
    /\ outRefs[k].DefPath = outDefs[d].DefKey.Path
    /\ outRefs[k].File = outDefs[d].File
    /\ outRefs[k].Start = outDefs[d].DefStart
    /\ outRefs[k].End = outDefs[d].DefEnd

\* C22: at every point of doGraph each Definition has exactly one Reference
\* with def = true and its path, file, start and end, each Reference with
\* def = true is that of exactly one Definition, and a Reference to the
\* documentation (MDN) or in an HTML document has def = false.
C22_DefRefsOneToOneWithDefs ==
    /\ \A d \in 1..Len(outDefs) :
          Cardinality({k \in 1..Len(outRefs) : outRefs[k].Def /\ AtDefSite(k, d)}) = 1
    /\ \A k \in 1..Len(outRefs) :
          outRefs[k].Def =>
              Cardinality({d \in 1..Len(outDefs) : AtDefSite(k, d)}) = 1
    /\ \A k \in 1..Len(outRefs) :
          (\/ outRefs[k].DefUnit = "MDN"
           \/ outRefs[k].DefUnitType = "URL"
           \/ isHTMLFile(outRefs[k].File)) => ~outRefs[k].Def

\* doGraph has returned for a.css (.a twice), b.css (two declarations) and
\* i.html: five Definitions, five References with def = true, and
\* References to the documentation and in i.html.
C22_Witness ==
    /\ pc = "done"
    /\ files = <<aCssPath, bCssPath, iHtmlPath>>
    /\ Len(outDefs) = 5
    /\ Cardinality({k \in 1..Len(outRefs) : outRefs[k].Def}) = 5
    /\ \E k \in 1..Len(outRefs) : outRefs[k].DefUnit = "MDN"
    /\ \E k \in 1..Len(outRefs) : outRefs[k].File = iHtmlPath

(***************************************************************************)
(* Termination.                                                            *)
(***************************************************************************)
\* An element with the id "a" and the classes "b" and "c".
IdAClassBC == <<Attribute("id", <<"a">>, 0), Attribute("class", <<"b", " ", "c">>, 0)>>

\* The strings of frame.selectors, which the function returns.
WalkResult == [k \in 1..Len(frame.selectors) |-> frame.selectors[k].sel]

\* C23: every run of Graph reaches its return, with or without an error,
\* and every upward walk of DescCombinatorSelectors and
\* ChildCombinatorSelectors reaches its end, where the candidates are those
\* the function returns; the loop over the candidates visits the candidates
\* that were there when it started.
C23_FullPassTerminates ==
    /\ <>(\/ frame.pc = "idle" /\ pc = "done"
          \/ frame.pc = "done")
    /\ [](frame.pc = "done" =>
             WalkResult = IF frame.fn = "DescCombinatorSelectors"
                          THEN DescCombinatorSelectors(tree, target)
                          ELSE ChildCombinatorSelectors(tree, target))
    /\ [](frame.pc = "range" => frame.n <= Len(frame.selectors))

\* The walk of DescCombinatorSelectors has ended with more candidates than
\* one per ancestor token: some were appended while the candidates were
\* being iterated over.
C23_Witness ==
    /\ frame.pc = "done"
    /\ frame.fn = "DescCombinatorSelectors"
    /\ tree = MkTree(<<IdAClassBC, IdAClassBC>>, <<>>)
    /\ Len(frame.selectors) = 15

\* doGraph has returned for three files.
C23_WitnessDoGraph ==
    /\ frame.pc = "idle"
    /\ pc = "done"
    /\ err = "nil"
    /\ Len(files) = 3
    /\ outRefs # <<>>

(***************************************************************************)
(* The spans of the tokens of an attribute value.                          *)
(***************************************************************************)
\* The bytes before token k of toks, the tokens being one space apart.
RECURSIVE TokenOffset(_, _)
TokenOffset(toks, k) ==
    IF k = 1 THEN 0 ELSE TokenOffset(toks, k - 1) + ByteLen(toks[k - 1]) + 1

\* C24: walk gives one Reference, in the order of the tokens, for each token
\* of the attribute value that has a Definition; the Reference of token k
\* starts at the offset of the value plus, for each token before k, with or
\* without a Definition, its length in bytes and one, and ends the length
\* of token k later; the bytes of the value between its start and its end
\* are those of token k.
C24_TokenSpansIndependentOfMisses ==
    (fn = "htmlRefs.walk" /\ returned) =>
        LET key      == args[1]
            toks     == Split(args[2], attrValSep)
            valStart == args[3]
            names    == {args[4][d].Name : d \in 1..Len(args[4])}
            hits     == SelectSeq([k \in 1..Len(toks) |-> k],
                                  LAMBDA k : selPrefix(key) \o toks[k] \in names)
            start(k) == valStart + TokenOffset(toks, k)
            end(k)   == start(k) + ByteLen(toks[k])
        IN  /\ Len(ret) = Len(hits)
            /\ \A r \in 1..Len(hits) :
                  /\ ret[r].Start = Uint32(start(hits[r]))
                  /\ ret[r].End = Uint32(end(hits[r]))
                  /\ ret[r].DefPath = aCssPath \o selPrefix(key) \o toks[hits[r]]
                  /\ ~ret[r].Def
                  /\ SubSeq(Bytes(args[2]), start(hits[r]) - valStart + 1,
                            end(hits[r]) - valStart) = Bytes(toks[hits[r]])

\* class="é a" at offset 7, where .a has a Definition and .é has none: the
\* Reference of a is from 10 to 11.
C24_Witness ==
    /\ fn = "htmlRefs.walk"
    /\ returned
    /\ args[1] = "class"
    /\ args[2] = <<eAcute, " ", "a">>
    /\ args[3] = 7
    /\ Len(args[4]) = 1
    /\ Len(ret) = 1
    /\ ret[1].Start = Uint32(10)
    /\ ret[1].End = Uint32(11)

\* class="b ab" at offset 65535, where only .ab has a Definition: the
\* Reference is from 65537 to 65539.
C24_WitnessCarry ==
    /\ fn = "htmlRefs.walk"
    /\ returned
    /\ args[2] = <<"b", " ", "a", "b">>
    /\ args[3] = Half - 1
    /\ Len(ret) = 1
    /\ ret[1].Start = [hi |-> 1, lo |-> 1]
    /\ ret[1].End = [hi |-> 1, lo |-> 3]

(***************************************************************************)
(* The Definition a token without direct match refers to.                  *)
(***************************************************************************)
\* C25: no Definition is named ".x".  htmlRefs gives the token x a Reference
\* if and only if some Definition of a linked stylesheet is named as one of
\* the candidates of .x, and the Reference is to the first of these in the
\* order of out.Defs, whatever the order of the links and whichever of the
\* four candidate lists has the name.
C25_FirstVisibleDefInDefsOrder ==
    (fn = "htmlRefs" /\ returned) =>
        LET linked   == Range(args[1])
            cands    == Range(combSelectors(LinkedDoc, selNode(TargetSel, 4)))
            matching == {d \in 1..Len(args[2]) :
                            args[2][d].File \in linked /\ args[2][d].Name \in cands}
            first    == CHOOSE d \in matching : \A e \in matching : d <= e
        IN  /\ cands = ChainNames
            /\ IF matching = {}
               THEN ret = <<>>
               ELSE /\ Len(ret) = 1
                    /\ ret[1].DefPath = args[2][first].DefKey.Path
                    /\ ret[1].Start = Uint32(35)
                    /\ ret[1].End = Uint32(36)

\* b.css is linked before a.css, out.Defs has "#a ~ .x" of a.css before
\* "#a .x" of b.css: the Reference of x is to "#a ~ .x" of a.css, though it
\* is a candidate of the last list and its stylesheet is linked last.
C25_Witness ==
    /\ fn = "htmlRefs"
    /\ returned
    /\ args[1] = <<bCssPath, aCssPath>>
    /\ Len(args[2]) = 2
    /\ args[2][1] = FileDef(aCssPath, <<"#", "a", " ", "~", " ", ".", "x">>)
    /\ args[2][2] = FileDef(bCssPath, <<"#", "a", " ", ".", "x">>)
    /\ Len(ret) = 1
    /\ ret[1].DefPath = aCssPath \o <<"#", "a", " ", "~", " ", ".", "x">>

(***************************************************************************)
(* The paths of the Definitions.                                           *)
(***************************************************************************)
\* C26: at every point of doGraph no two Definitions have the same path, so
\* that the defPath of a Reference is the path of at most one Definition.
C26_DefPathUnique ==
    /\ \A j, k \in 1..Len(outDefs) :
          outDefs[j].DefKey.Path = outDefs[k].DefKey.Path => j = k
    /\ \A r \in 1..Len(outRefs) :
          Cardinality({d \in 1..Len(outDefs) :
                          outDefs[d].DefKey.Path = outRefs[r].DefPath}) <= 1

\* doGraph has returned for c.css (".css.x") and c.css.css (".x"): two
\* Definitions, of different files and names, with the path "c.css.css.x".
C26_TwoDefsOnePath ==
    /\ pc = "done"
    /\ files = <<cCssPath, cCssCssPath>>
    /\ Len(outDefs) = 2
    /\ outDefs[1].File # outDefs[2].File
    /\ outDefs[1].Name # outDefs[2].Name
    /\ outDefs[1].DefKey.Path = cCssCssPath \o <<".", "x">>
    /\ outDefs[2].DefKey.Path = cCssCssPath \o <<".", "x">>

====
